---- MODULE Spec2Model ----
(***************************************************************************)
(* heimdall-vision: the acquisition pipeline's lock-free ring buffer       *)
(* (heimdall-pipeline/src/buffer.rs) and the task bodies that use it       *)
(* (heimdall-pipeline/src/pipeline.rs, scheduler.rs).                      *)
(*                                                                         *)
(* The specifications share the buffer's actions:                          *)
(*   Spec          concurrent producers and consumers calling the buffer;  *)
(*   SpecSeq       one client calling the buffer's methods in sequence;    *)
(*   SpecPipe      a pipeline's acquisition and processing tasks, started; *)
(*   SpecLife      the same, while the pipeline is started, paused, reset  *)
(*                 and started again;                                      *)
(*   SpecCtl       a new pipeline whose initialize, start, pause, stop and *)
(*                 reset are called in any order;                          *)
(*   SpecStop      a pipeline with its monitoring task, started and        *)
(*                 stopped, under fair scheduling;                         *)
(*   SpecRecover   a started pipeline with automatic recovery, while time  *)
(*                 passes;                                                 *)
(*   SpecFault     a started pipeline of which one camera fails;           *)
(*   SpecStall     a started pipeline whose camera's frames are late;      *)
(*   SpecCallbacks a started pipeline with registered callbacks;           *)
(*   SpecSched     a scheduler with one aperiodic job, its workers         *)
(*                 scheduled fairly, while start_all, stop_all, join_all   *)
(*                 are called and control messages are sent;               *)
(*   SpecPeriodic  a scheduler with one periodic job, while time passes;   *)
(*   SpecWake      the same, while stop_all may be called;                 *)
(*   SpecRt        spawn_rt_task's set-up of the real-time environment     *)
(*                 (heimdall-rt/src/lib.rs), on any platform;              *)
(*   SpecSync      a SyncManager (heimdall-gige/src/sync.rs) whose methods *)
(*                 are called in any order;                                *)
(*   SpecMetrics   a PipelineMetrics (heimdall-pipeline/src/metrics.rs)    *)
(*                 whose methods are called by any number of threads;      *)
(*   SpecRates     the same, while time passes;                            *)
(*   SpecTime      threads calling Timestamp::now                          *)
(*                 (heimdall-pipeline/src/timestamp.rs) while the system   *)
(*                 clock advances and may be set back once.                *)
(*                                                                         *)
(* Every method of LockFreeRingBuffer is a sequence of atomic loads,       *)
(* stores and read-modify-writes with no lock around them, so each method  *)
(* is modelled as one action per shared-memory access, and a thread's      *)
(* position inside a method is its pc.  The lifetime counters (produced,   *)
(* consumed, dropped) are read by no method, only by their accessors, so   *)
(* their fetch_add is taken together with the atomic access next to it.    *)
(* A local that is dead (out of scope, or overwritten before its next      *)
(* use) is cleared.                                                        *)
(*                                                                         *)
(* size is an AtomicUsize: fetch_sub at 0 wraps to 2^64-1.  The model      *)
(* keeps the two's-complement representative of the 64-bit value: a        *)
(* negative size n stands for the usize value 2^64 + n.                    *)
(***************************************************************************)
EXTENDS Integers, Sequences, FiniteSets, TLC

\* ------------------------------------------------------------------ bounds

\* Frames offered to the buffer in one run (calls of reserve_write_slot).
MaxFrames == 3

\* Largest buffer capacity explored (LockFreeRingBuffer::new's capacity).
MaxCapacity == 2

\* max_image_size given to LockFreeRingBuffer::new, in bytes.
MaxImageSize == 2

\* Threads that use the buffer at the same time.
MaxThreads == 3

\* Calls of LockFreeRingBuffer::reset in one run.
MaxResets == 1

\* Calls of AcquisitionPipeline::start in one run.
MaxStarts == 2

\* Frames the cameras deliver in one run of the pipeline.
MaxAcquired == 2

\* Steps of the clock in one run, and the length of a step in milliseconds.
MaxTicks == 2
TickMs == 600

\* Tasks of a pipeline that is paused and reset while it runs.
MaxLifeTasks == 2

\* Callbacks registered with add_processor_callback.
MaxCallbacks == 2

\* The size of a CpuSet (CPU_SETSIZE, scaled down): CpuSet::set refuses an
\* index that is not below it.
CpuSetSize == 2

\* The count at which a job's body sets its task Finished
\* (test_scheduler_basic's is 10).
JobTarget == 2

\* The period of a periodic job, the most that its thread::sleep oversleeps
\* and the most that its body takes, in milliseconds, and the length of a
\* run.
PeriodMs == 2
MaxLate == 1
MaxBody == 2
MaxTime == 16

\* Successful calls of SyncManager::trigger between two calls of start, the
\* intervals that the manager keeps (100 in trigger), and the length of a
\* run of the manager, in clock ticks.
MaxTriggers == 4
WindowLimit == 2
MaxSyncTime == 3

\* Calls of each method of PipelineMetrics in one run.
MaxRecords == 3

\* METRICS_WINDOW_SECONDS (60 s) and METRICS_UPDATE_INTERVAL_MS (100 ms), in
\* units of the metrics' clock, and the latest instant of that clock.
METRICS_WINDOW == 2
METRICS_UPDATE_INTERVAL == 1
MaxMetricsTime == 3

\* Control messages sent through the jobs' senders in one run.
MaxMessages == 2

\* Calls of Timestamp::now in one run, the latest instant of the system
\* clock, in nanoseconds, and the nanoseconds of one second.
MaxStamps == 3
MaxSystemTime == 3
NanosPerSecond == 2

\* if diff > 1000, in the processing task's recovery branch
DesyncLimitMs == 1000

\* PipelineConfig::default().max_wait_time_ms
max_wait_time_ms == 100

\* ----------------------------------------------------------------- threads

\* Threads that call the buffer's API directly and concurrently, as
\* test_buffer_concurrent_operations does.
Producers == {"p1", "p2"}
Consumers == {"c1", "c2"}

\* A single thread that calls the API one method after the other, as
\* test_buffer_basic_operations and test_buffer_overflow_drop_oldest do.
Client == "u1"

\* The pipeline's tasks: one acquisition task per camera
\* (create_acquisition_tasks), config.processing_threads processing tasks
\* (create_processing_tasks), and the thread that calls the pipeline's
\* (create_processing_tasks), one monitoring task (create_monitoring_task),
\* and the thread that calls the pipeline's initialize(), start(), pause(),
\* stop() and reset().
Acquirers == {"a1", "a2"}
Processors == {"w1", "w2"}
Monitors == {"m1"}
Controller == "ctl"
Workers == Acquirers \cup Processors

\* Tasks given to TaskScheduler::spawn_rt_task directly, as
\* test_scheduler_basic does, with a body of their own.
Jobs == {"k1"}

Tasks == Workers \cup Monitors \cup Jobs

\* Threads that call Timestamp::now concurrently, as test_timestamp_monotonic
\* does.
Stampers == {"s1", "s2"}

Threads == Producers \cup Consumers \cup {Client} \cup Tasks \cup {Controller}
           \cup Stampers

Writers == Producers \cup {Client} \cup Acquirers
Readers == Consumers \cup {Client} \cup Processors
Resetters == {Client, Controller}

Strategies == {"Block", "DropOldest", "DropNewest", "Resize"}

\* What a producer writes through the &mut ImageSlot it reserved.
Payloads == {[size |-> 0, width |-> 1, height |-> 1],
             [size |-> MaxImageSize, width |-> 2, height |-> 1]}

\* ImageSlot::new followed by ImageSlot::reset.
NewSlot == [valid |-> FALSE, size |-> 0, width |-> 0, height |-> 0, sequence |-> 0]

NoImage == [size |-> 0, width |-> 0, height |-> 0, sequence |-> 0]

\* The fields of a slot that a reader copies out of it.
Image(slot) == [size |-> slot.size, width |-> slot.width,
                height |-> slot.height, sequence |-> slot.sequence]

NoCall == [op |-> "none", res |-> "none", prev |-> "none"]

\* PipelineMetrics' counters.
NoMetrics == [frames_acquired |-> 0, frames_processed |-> 0,
              frames_dropped |-> 0, buffer_overflows |-> 0,
              desync_events |-> 0, recovery_events |-> 0]

\* Option<Timestamp>::None
None == -1

\* What acquire_frame does for a camera: it returns a frame, returns an
\* error, or does not return.
CameraFaults == {"none", "error", "stall"}

\* The calls of the pipeline's API and what they return.
NoApiCall == [op |-> "none", res |-> "none", from |-> "none"]

\* PipelineStats::default(), for the fields that are counters.
NoStats == [total_frames_acquired |-> 0, total_frames_processed |-> 0,
            total_frames_dropped |-> 0, buffer_overflows |-> 0,
            desync_events |-> 0, recovery_events |-> 0]

\* The calls made on a PipelineMetrics, by method.
NoRecords == [record_acquisition |-> 0, record_processing |-> 0,
              record_dropped_frame |-> 0, get_stats |-> 0]

\* TaskControl
TaskControls == {"Start", "Pause", "Resume", "Stop", "Reset"}

\* SyncMode, TriggerSource
SyncModes == {"Freerun", "Software", "Hardware"}
TriggerSources == {"Line1", "Timer"}

\* SyncConfig::default(), for the fields that the manager's methods read.
DefaultSyncConfig == [mode |-> "Software", trigger_source |-> "Line1",
                      trigger_delay_us |-> 0, trigger_interval_us |-> 33333]

\* The calls of a SyncManager's API and what they return.
NoSyncCall == [op |-> "none", res |-> "none"]

\* RtConfig::default()
DefaultRtConfig == [lock_memory |-> FALSE, cpu_affinity |-> {},
                    use_rt_scheduler |-> FALSE]

\* A platform that is not asked anything.
AnyOs == [linux |-> TRUE, mlockall |-> "Ok", cpus |-> {0},
          sched_setaffinity |-> "Ok", sched_setscheduler |-> "Ok"]

\* spawn_rt_task has not been called.
NotSpawned == [res |-> "none", thread |-> FALSE, pinned |-> FALSE,
               priority |-> "normal", locked |-> FALSE]

VARIABLES
    capacity,            \* LockFreeRingBuffer.capacity
    overflow_strategy,   \* LockFreeRingBuffer.overflow_strategy
    slots,               \* slot index -> the ImageSlot object the Atomic points to
    heap,                \* every ImageSlot object allocated so far (never freed)
    head, tail, size,    \* the ring's atomics
    produced, consumed, dropped,
    pc,                  \* each thread's position
    slot_index,          \* each thread's local slot_index
    slot_ref,            \* each thread's local reference to an ImageSlot (0: none)
    sequence,            \* the sequence a producer passes to commit_write
    image,               \* what a reader copied out of the slot it was given
    frames,              \* calls of reserve_write_slot made so far
    resets,              \* calls of reset made so far
    active,              \* the threads that exist in this run
    snap,                \* the buffer as it was when the client's last call began
    wsnap,               \* the buffer as it was when the client's last write began
    last,                \* the client's last call, its result, and the call before
    write_log,           \* the frames the client has written, in order
    read_log,            \* the frames the client has read, in order
    discarded,           \* the ImageSlot objects invalidated by force_advance_tail or reset
    granted,             \* the object whose reference reserve_write_slot last returned to each thread
    state,               \* AcquisitionPipeline.state
    is_acquiring,        \* the cameras' is_acquiring
    cameras,             \* the thread that holds the cameras mutex, or "none"
    sequence_counter,    \* AcquisitionPipeline.sequence_counter
    enable_auto_recovery,\* PipelineConfig.enable_auto_recovery
    last_processing,     \* the last_processing mutex: "free", "poisoned" or its holder
    task_state,          \* TaskContext.state of each task
    todo,                \* the tasks start_all has still to visit
    starts,              \* calls of start made so far
    stop_flag,           \* TaskScheduler.stop_flag
    control,             \* each task's control channel
    threads,             \* TaskScheduler.threads, the handles still to join
    metrics,             \* PipelineMetrics' counters
    stats,               \* AcquisitionPipeline.stats, written by the monitor
    now,                 \* the clock, in milliseconds
    last_acquisition,    \* AcquisitionPipeline.last_acquisition
    last_processing_at,  \* the value held by AcquisitionPipeline.last_processing
    acquisition_time,    \* each acquisition body's local acquisition_time
    processor_callbacks, \* the number of callbacks registered
    callbacks_lock,      \* the thread that holds the processor_callbacks mutex
    invoked,             \* the callbacks called for the last frame, with results
    camera_fault,        \* what each camera's acquire_frame does
    api,                 \* the controller's last call of the pipeline's API
    delivered,           \* the sequences of the frames handed to the callbacks, in order
    epoch,               \* the number of ImageSlot objects when the pipeline was last reset
    ready,               \* the bool of TaskScheduler.condition
    period_ms,           \* TaskContext.period_ms of the scheduler's jobs
    last_execution,      \* TaskContext.last_execution of each job
    next_scheduled,      \* RtContext.next_scheduled of each job
    wake_at,             \* when each job's thread::sleep is due to end
    counter,             \* the counter that each job's body increments
    sent,                \* the control messages sent through the jobs' senders
    executions,          \* RtStats.executions of each job
    deadline_misses,     \* RtStats.deadline_misses of each job
    rt_config,           \* the RtConfig given to spawn_rt_task
    os,                  \* the platform, and what its system calls answer
    spawned,             \* what spawn_rt_task returned, and whether a thread runs
    sync_manager,        \* a SyncManager's fields
    sync_call,           \* the last call of the SyncManager's API, with its result
    triggered,           \* the trigger() calls that returned Ok since the manager was activated
    trigger_times,       \* the instants of these calls, in order
    recorded,            \* the calls made on the PipelineMetrics, by method
    system_time,         \* SystemTime::now(), in nanoseconds since UNIX_EPOCH
    corrected,           \* whether the system clock has been set backwards
    GLOBAL_COUNTER,      \* timestamp.rs's GLOBAL_COUNTER
    duration,            \* each Timestamp::now's local duration
    began,               \* the timestamps returned when each Timestamp::now began
    issued,              \* the timestamps returned, in the order of their return
    acquisition_history, \* PipelineMetrics.acquisition_history
    processing_history,  \* PipelineMetrics.processing_history
    last_update,         \* PipelineMetrics.last_update
    held,                \* the PipelineMetrics' mutexes held by callers that block for ever
    events,              \* the instants pushed by record_acquisition and record_processing, all of them
    rates                \* the rates of the last get_stats, times the window

config == <<capacity, overflow_strategy>>
ring == <<head, tail, size>>
counters == <<produced, consumed, dropped>>
bufvars == <<config, slots, heap, ring, counters>>
locals == <<slot_index, slot_ref, sequence, image>>
calls == <<snap, wsnap, last>>
evictions == <<discarded, granted>>
logs == <<write_log, read_log, evictions>>
ghost == <<calls, logs>>
lifecycle == <<state, is_acquiring, task_state, todo, starts>>
history == <<delivered, epoch>>
sched == <<stop_flag, control, threads>>
times == <<now, last_acquisition, last_processing_at, acquisition_time>>
cbs == <<callbacks_lock, invoked>>
observed == <<metrics, stats>>
configuration == <<enable_auto_recovery, processor_callbacks, camera_fault>>
rtstats == <<executions, deadline_misses>>
jobs == <<period_ms, last_execution, next_scheduled, wake_at, counter,
          sent, rtstats>>
rt == <<rt_config, os, spawned>>
sync == <<sync_manager, sync_call, triggered, trigger_times>>
\* What no task of the pipeline writes: its configuration, the scheduler's
\* condition, which only stop_all sets, and the components that the
\* pipeline's tasks do not use.
stamps == <<system_time, corrected, GLOBAL_COUNTER, duration, began, issued>>
histories == <<acquisition_history, processing_history, last_update, held>>
rated == <<histories, events, rates>>
aside == <<stamps, rated>>
apart == <<jobs, rt, sync, recorded, aside>>
settings == <<configuration, ready, apart>>
\* The pipeline and its scheduler, without the components apart.
core == <<lifecycle, cameras, sequence_counter, last_processing, history,
          sched, times, cbs, observed, configuration, ready, api>>
pipe == <<lifecycle, cameras, sequence_counter, last_processing, history,
          sched, times, cbs, observed, settings, api>>
world == <<active, pipe>>
bufferside == <<bufvars, locals, frames, resets, active, ghost>>
vars == <<bufvars, pc, locals, frames, resets, world, ghost>>

\* ------------------------------------------------------------- accessors

len == size

is_empty == len = 0

\* A faulty is_full: len() > capacity.
is_full_above == len > capacity

\* len() >= capacity; a wrapped size is a value near 2^64.
is_full == len < 0 \/ len >= capacity

Idx(n) == n % capacity

Goto(t, l) == pc' = [pc EXCEPT ![t] = l]

\* The locals of thread t after a step.
Local(t, i, r, s, im) ==
    /\ slot_index' = [slot_index EXCEPT ![t] = i]
    /\ slot_ref' = [slot_ref EXCEPT ![t] = r]
    /\ sequence' = [sequence EXCEPT ![t] = s]
    /\ image' = [image EXCEPT ![t] = im]

ClearLocals(t) == Local(t, 0, 0, 0, NoImage)

Buffer == [capacity |-> capacity, slots |-> slots, heap |-> heap,
           head |-> head, tail |-> tail, size |-> size,
           produced |-> produced, consumed |-> consumed, dropped |-> dropped]

\* The client's calls are recorded with the state they started from.
Call(t, op, res) ==
    IF t = Client
    THEN /\ snap' = Buffer
         /\ wsnap' = IF op = "reserve" THEN Buffer ELSE wsnap
         /\ last' = [op |-> op, res |-> res, prev |-> last.op]
    ELSE UNCHANGED calls

Begin(t, op) == Call(t, op, "pending")

Return(t, res) ==
    IF t = Client
    THEN /\ last' = [last EXCEPT !.res = res]
         /\ UNCHANGED <<snap, wsnap>>
    ELSE UNCHANGED calls

BeginReturn(t, op, res) == Call(t, op, res)

\* Where a thread continues when a method returns.
ReserveEntry(t) == IF t \in Acquirers THEN "acq_reserve" ELSE "idle"
AfterReserveOk(t) == IF t \in Acquirers THEN "acq_fill" ELSE "fill"
AfterReserveErr(t) == IF t \in Acquirers THEN "acq_drop" ELSE "idle"
AfterCommitWrite(t) == IF t \in Acquirers THEN "acq_end" ELSE "idle"
ReadEntry(t) == IF t \in Processors THEN "proc_read" ELSE "idle"
AfterReadOk(t) == IF t \in Processors THEN "proc_image" ELSE "rd_obs"
AfterReadErr(t) == IF t \in Processors THEN "proc_err" ELSE "idle"
AfterCommitRead(t) == IF t \in Processors THEN "proc_end" ELSE "idle"
ResetEntry(t) == IF t = Controller THEN "ctl_buffer" ELSE "idle"
AfterReset(t) == IF t = Controller THEN "ctl_counter" ELSE "idle"

\* The sequence a writer will pass to commit_write: an acquisition task took
\* it from the pipeline's counter, the buffer's tests number their frames.
NextSequence(t) == IF t \in Acquirers THEN sequence[t] ELSE frames + 1

\* ---------------------------------------------------- reserve_write_slot

\* if self.is_full() { match self.overflow_strategy { .. } }
ReserveCheck(t) ==
    /\ pc[t] = ReserveEntry(t)
    /\ t \in Writers
    /\ t \in Acquirers \/ frames < MaxFrames
    /\ frames' = frames + 1
    /\ IF is_full /\ overflow_strategy = "DropOldest"
       THEN /\ Goto(t, "fat_tail")
            /\ Local(t, 0, 0, NextSequence(t), NoImage)
            /\ Begin(t, "reserve")
            /\ UNCHANGED dropped
       ELSE IF is_full
       THEN /\ Goto(t, AfterReserveErr(t))
            /\ ClearLocals(t)
            /\ BeginReturn(t, "reserve", "Err")
            /\ dropped' = IF overflow_strategy = "DropNewest"
                          THEN dropped + 1 ELSE dropped
       ELSE /\ Goto(t, "rsv_head")
            /\ Local(t, 0, 0, NextSequence(t), NoImage)
            /\ Begin(t, "reserve")
            /\ UNCHANGED dropped
    /\ UNCHANGED <<config, slots, heap, ring, produced, consumed,
                   resets, world, logs>>

\* force_advance_tail: let tail = self.tail.load(..); slot_index = tail % capacity
FatTail(t) ==
    /\ pc[t] = "fat_tail"
    /\ Local(t, Idx(tail), 0, sequence[t], NoImage)
    /\ Goto(t, "fat_load")
    /\ UNCHANGED <<bufvars, frames, resets, world, ghost>>

\* force_advance_tail: self.slots[slot_index].load(..)
FatLoad(t) ==
    /\ pc[t] = "fat_load"
    /\ Local(t, 0, slots[slot_index[t]], sequence[t], NoImage)
    /\ Goto(t, "fat_inval")
    /\ UNCHANGED <<bufvars, frames, resets, world, ghost>>

\* force_advance_tail: slot.valid.store(false, ..)
FatInvalidate(t) ==
    /\ pc[t] = "fat_inval"
    /\ heap' = [heap EXCEPT ![slot_ref[t]].valid = FALSE]
    /\ discarded' = discarded \cup {slot_ref[t]}
    /\ Local(t, 0, 0, sequence[t], NoImage)
    /\ Goto(t, "fat_adv")
    /\ UNCHANGED <<config, slots, ring, counters, frames, resets, world, calls,
                   write_log, read_log, granted>>

\* force_advance_tail: self.tail.fetch_add(1, ..)
FatAdvance(t) ==
    /\ pc[t] = "fat_adv"
    /\ tail' = tail + 1
    /\ Goto(t, "fat_size")
    /\ UNCHANGED <<config, slots, heap, head, size, counters,
                   locals, frames, resets, world, ghost>>

\* A faulty force_advance_tail that does not count the frame it drops.
FatSizeUncounted(t) ==
    /\ pc[t] = "fat_size"
    /\ size' = size - 1
    /\ Goto(t, "rsv_head")
    /\ UNCHANGED <<config, slots, heap, head, tail, counters,
                   locals, frames, resets, world, ghost>>

\* force_advance_tail: self.size.fetch_sub(1, ..); self.dropped.fetch_add(1, ..)
FatSize(t) ==
    /\ pc[t] = "fat_size"
    /\ size' = size - 1
    /\ dropped' = dropped + 1
    /\ Goto(t, "rsv_head")
    /\ UNCHANGED <<config, slots, heap, head, tail, produced, consumed,
                   locals, frames, resets, world, ghost>>

\* let head = self.head.load(..); let slot_index = head % self.capacity
ReserveHead(t) ==
    /\ pc[t] = "rsv_head"
    /\ Local(t, Idx(head), 0, sequence[t], NoImage)
    /\ Goto(t, "rsv_swap")
    /\ UNCHANGED <<bufvars, frames, resets, world, ghost>>

\* self.slots[slot_index].swap(Owned::new(new_slot), ..): the old object is
\* neither reused nor freed.
ReserveSwap(t) ==
    /\ pc[t] = "rsv_swap"
    /\ heap' = Append(heap, NewSlot)
    /\ slots' = [slots EXCEPT ![slot_index[t]] = Len(heap) + 1]
    /\ Goto(t, "rsv_hadv")
    /\ UNCHANGED <<config, ring, counters, locals, frames, resets, world, ghost>>

\* self.head.fetch_add(1, ..)
ReserveAdvance(t) ==
    /\ pc[t] = "rsv_hadv"
    /\ head' = head + 1
    /\ Goto(t, "rsv_size")
    /\ UNCHANGED <<config, slots, heap, tail, size, counters,
                   locals, frames, resets, world, ghost>>

\* self.size.fetch_add(1, ..); self.produced.fetch_add(1, ..)
ReserveSize(t) ==
    /\ pc[t] = "rsv_size"
    /\ size' = size + 1
    /\ produced' = produced + 1
    /\ Goto(t, "rsv_ref")
    /\ UNCHANGED <<config, slots, heap, head, tail, consumed, dropped,
                   locals, frames, resets, world, ghost>>

\* &mut *self.slots[slot_index].load(..).as_raw(); Ok((slot_index, slot_ref))
ReserveRef(t) ==
    /\ pc[t] = "rsv_ref"
    /\ Local(t, slot_index[t], slots[slot_index[t]], sequence[t], NoImage)
    /\ granted' = [granted EXCEPT ![t] = slots[slot_index[t]]]
    /\ Goto(t, AfterReserveOk(t))
    /\ Return(t, "Ok")
    /\ UNCHANGED <<bufvars, frames, resets, world, write_log, read_log,
                   discarded>>

\* The caller writes the frame through the reference it was given: size,
\* width and height (test_buffer_basic_operations), or the sequence alone
\* (test_buffer_concurrent_operations).
Fill(t) ==
    /\ pc[t] = "fill"
    /\ t \in Writers \ Acquirers
    /\ IF t = Client
       THEN \E p \in Payloads :
              /\ heap' = [heap EXCEPT ![slot_ref[t]].size = p.size,
                                      ![slot_ref[t]].width = p.width,
                                      ![slot_ref[t]].height = p.height]
              /\ write_log' = Append(write_log,
                                     [size |-> p.size, width |-> p.width,
                                      height |-> p.height,
                                      sequence |-> sequence[t]])
       ELSE /\ heap' = [heap EXCEPT ![slot_ref[t]].sequence = sequence[t]]
            /\ UNCHANGED write_log
    /\ Local(t, slot_index[t], 0, sequence[t], NoImage)
    /\ Goto(t, "cw_load")
    /\ UNCHANGED <<config, slots, ring, counters, frames, resets, world,
                   calls, read_log, evictions>>

\* ----------------------------------------------------------- commit_write

\* self.slots[slot_index].load(..)
CommitWriteLoad(t) ==
    /\ pc[t] = "cw_load"
    /\ Local(t, slot_index[t], slots[slot_index[t]], sequence[t], NoImage)
    /\ Goto(t, "cw_seq")
    /\ Begin(t, "commit_write")
    /\ UNCHANGED <<bufvars, frames, resets, world, logs>>

\* A faulty commit_write that does not store the sequence.
CommitWriteSequenceLost(t) ==
    /\ pc[t] = "cw_seq"
    /\ Goto(t, "cw_valid")
    /\ UNCHANGED <<bufvars, locals, frames, resets, world, ghost>>

\* slot_mut.sequence = sequence
CommitWriteSequence(t) ==
    /\ pc[t] = "cw_seq"
    /\ heap' = [heap EXCEPT ![slot_ref[t]].sequence = sequence[t]]
    /\ Goto(t, "cw_valid")
    /\ UNCHANGED <<config, slots, ring, counters, locals, frames, resets,
                   world, ghost>>

\* slot.valid.store(true, ..)
CommitWriteValid(t) ==
    /\ pc[t] = "cw_valid"
    /\ heap' = [heap EXCEPT ![slot_ref[t]].valid = TRUE]
    /\ granted' = [granted EXCEPT ![t] = 0]
    /\ ClearLocals(t)
    /\ Goto(t, AfterCommitWrite(t))
    /\ Return(t, "Ok")
    /\ UNCHANGED <<config, slots, ring, counters, frames, resets, world,
                   write_log, read_log, discarded>>

\* -------------------------------------------------------------- read_slot

\* if self.is_empty() { return Err(..) }
ReadCheck(t) ==
    /\ pc[t] = ReadEntry(t)
    /\ t \in Readers
    /\ IF is_empty
       THEN /\ Goto(t, AfterReadErr(t))
            /\ BeginReturn(t, "read_slot", "Err")
       ELSE /\ Goto(t, "rd_tail")
            /\ Begin(t, "read_slot")
    /\ UNCHANGED <<bufvars, locals, frames, resets, world, logs>>

\* let tail = self.tail.load(..); let slot_index = tail % self.capacity
ReadTail(t) ==
    /\ pc[t] = "rd_tail"
    /\ Local(t, Idx(tail), 0, 0, NoImage)
    /\ Goto(t, "rd_load")
    /\ UNCHANGED <<bufvars, frames, resets, world, ghost>>

\* self.slots[slot_index].load(..)
ReadLoad(t) ==
    /\ pc[t] = "rd_load"
    /\ Local(t, slot_index[t], slots[slot_index[t]], 0, NoImage)
    /\ Goto(t, "rd_valid")
    /\ UNCHANGED <<bufvars, frames, resets, world, ghost>>

\* if !slot.valid.load(..) { return Err(..) }; Ok((slot_index, slot))
ReadValid(t) ==
    /\ pc[t] = "rd_valid"
    /\ IF heap[slot_ref[t]].valid
       THEN /\ Goto(t, AfterReadOk(t))
            /\ Return(t, "Ok")
            /\ UNCHANGED locals
       ELSE /\ Goto(t, AfterReadErr(t))
            /\ Return(t, "Err")
            /\ ClearLocals(t)
    /\ UNCHANGED <<bufvars, frames, resets, world, logs>>

\* The caller reads the slot it was given.
ReadObserve(t) ==
    /\ pc[t] = "rd_obs"
    /\ t \in Readers \ Processors
    /\ Local(t, slot_index[t], 0, 0, Image(heap[slot_ref[t]]))
    /\ read_log' = IF t = Client
                   THEN Append(read_log, Image(heap[slot_ref[t]]))
                   ELSE read_log
    /\ Goto(t, "cr_load")
    /\ UNCHANGED <<bufvars, frames, resets, world, calls, write_log,
                   evictions>>

\* ------------------------------------------------------------ commit_read

\* self.slots[slot_index].load(..)
CommitReadLoad(t) ==
    /\ pc[t] = "cr_load"
    /\ Local(t, slot_index[t], slots[slot_index[t]], 0, NoImage)
    /\ Goto(t, "cr_inval")
    /\ Begin(t, "commit_read")
    /\ UNCHANGED <<bufvars, frames, resets, world, logs>>

\* slot.valid.store(false, ..)
CommitReadInvalidate(t) ==
    /\ pc[t] = "cr_inval"
    /\ heap' = [heap EXCEPT ![slot_ref[t]].valid = FALSE]
    /\ Local(t, 0, 0, 0, NoImage)
    /\ Goto(t, "cr_tail")
    /\ UNCHANGED <<config, slots, ring, counters, frames, resets, world, ghost>>

\* self.tail.fetch_add(1, ..)
CommitReadAdvance(t) ==
    /\ pc[t] = "cr_tail"
    /\ tail' = tail + 1
    /\ Goto(t, "cr_size")
    /\ UNCHANGED <<config, slots, heap, head, size, counters,
                   locals, frames, resets, world, ghost>>

\* self.size.fetch_sub(1, ..); self.consumed.fetch_add(1, ..)
CommitReadSize(t) ==
    /\ pc[t] = "cr_size"
    /\ size' = size - 1
    /\ consumed' = consumed + 1
    /\ Goto(t, AfterCommitRead(t))
    /\ Return(t, "Ok")
    /\ UNCHANGED <<config, slots, heap, head, tail, produced, dropped,
                   locals, frames, resets, world, logs>>

\* ------------------------------------------------------------------ reset

\* self.head.store(0, ..)
ResetHead(t) ==
    /\ pc[t] = ResetEntry(t)
    /\ t \in Resetters
    /\ resets < MaxResets
    /\ resets' = resets + 1
    /\ head' = 0
    /\ Goto(t, "rst_tail")
    /\ Begin(t, "reset")
    /\ UNCHANGED <<config, slots, heap, tail, size, counters,
                   locals, frames, world, logs>>

\* A faulty reset that leaves tail where it is.
ResetTailKept(t) ==
    /\ pc[t] = "rst_tail"
    /\ Goto(t, "rst_size")
    /\ UNCHANGED <<bufvars, locals, frames, resets, world, ghost>>

\* self.tail.store(0, ..)
ResetTail(t) ==
    /\ pc[t] = "rst_tail"
    /\ tail' = 0
    /\ Goto(t, "rst_size")
    /\ UNCHANGED <<config, slots, heap, head, size, counters,
                   locals, frames, resets, world, ghost>>

\* self.size.store(0, ..); for i in 0..self.capacity
ResetSize(t) ==
    /\ pc[t] = "rst_size"
    /\ size' = 0
    /\ Local(t, 0, 0, 0, NoImage)
    /\ Goto(t, "rst_load")
    /\ UNCHANGED <<config, slots, heap, head, tail, counters,
                   frames, resets, world, ghost>>

\* self.slots[i].load(..)
ResetLoad(t) ==
    /\ pc[t] = "rst_load"
    /\ Local(t, slot_index[t], slots[slot_index[t]], 0, NoImage)
    /\ Goto(t, "rst_inval")
    /\ UNCHANGED <<bufvars, frames, resets, world, ghost>>

\* slot.valid.store(false, ..); the loop's next i, or the return
ResetInvalidate(t) ==
    /\ pc[t] = "rst_inval"
    /\ heap' = [heap EXCEPT ![slot_ref[t]].valid = FALSE]
    /\ discarded' = discarded \cup {slot_ref[t]}
    /\ IF slot_index[t] + 1 < capacity
       THEN /\ Local(t, slot_index[t] + 1, 0, 0, NoImage)
            /\ Goto(t, "rst_load")
            /\ UNCHANGED calls
       ELSE /\ ClearLocals(t)
            /\ Goto(t, AfterReset(t))
            /\ Return(t, "Ok")
    /\ UNCHANGED <<config, slots, ring, counters, frames, resets, world,
                   write_log, read_log, granted>>

\* ------------------------------------------------- the scheduler's worker

\* The order of the scheduler's task list: acquisition tasks are created
\* before processing tasks, and the monitoring task last.
TaskOrder == <<"a1", "a2", "w1", "w2", "m1", "k1">>

\* The tasks of this run, in the order of the scheduler's list.
TaskList == SelectSeq(TaskOrder, LAMBDA u : u \in active)

\* A worker holds its task's mutex from check_control to the end of the
\* body; it drops it while it waits on the condition, and a periodic task
\* drops it while it sleeps until its period has elapsed.
TaskMutexFree(t) ==
    pc[t] \in {"loop", "wk_task", "wk_cond", "mon_sleep", "job_sleep", "done"}

\* Where a task's body starts.
Body(t) == IF t \in Acquirers THEN "acq_lock"
           ELSE IF t \in Processors THEN ReadEntry(t)
           ELSE IF t \in Monitors THEN "mon_sleep"
           ELSE "job_wait"

Count(field) == metrics' = [metrics EXCEPT ![field] = @ + 1]

\* if *stop_flag.lock().unwrap() { break; }
WorkerLoop(t) ==
    /\ pc[t] = "loop"
    /\ Goto(t, IF stop_flag THEN "done" ELSE "wk_task")
    /\ UNCHANGED <<bufferside, pipe>>

\* A worker that would not check the task's state before the body.
WorkerControlAnyState(t) ==
    /\ pc[t] = "wk_task"
    /\ LET msg == IF control[t] = <<>> THEN "none" ELSE Head(control[t])
           st == IF msg \in {"Start", "Resume"} THEN "Running"
                 ELSE IF msg = "Pause" THEN "Paused"
                 ELSE IF msg = "Stop" THEN "Finished"
                 ELSE task_state[t]
       IN /\ control' = [control EXCEPT
                           ![t] = IF msg = "none" THEN @ ELSE Tail(@)]
          /\ task_state' = [task_state EXCEPT ![t] = st]
          /\ IF msg = "Reset" /\ t \in Jobs
             THEN /\ executions' = [executions EXCEPT ![t] = 0]
                  /\ deadline_misses' = [deadline_misses EXCEPT ![t] = 0]
             ELSE UNCHANGED rtstats
          /\ Goto(t, IF msg = "Stop" THEN "done"
                     ELSE IF msg = "Pause" THEN "wk_cond"
                     ELSE Body(t))
    /\ UNCHANGED <<bufferside, state, is_acquiring, todo, starts, cameras,
                   sequence_counter, last_processing, history, stop_flag,
                   threads, times, cbs, observed, configuration, ready,
                   period_ms, last_execution, next_scheduled, wake_at,
                   counter, sent, rt, sync, recorded, aside, api>>

\* task_clone.lock(); check_control(): Start and Resume set the task
\* Running, Pause sets it Paused and the worker waits on the condition, Stop
\* sets it Finished and ends the thread, Reset resets the task's RtStats.  A
\* task that is Running goes on to its body, any other sleeps and starts the
\* loop again.
WorkerControl(t) ==
    /\ pc[t] = "wk_task"
    /\ LET msg == IF control[t] = <<>> THEN "none" ELSE Head(control[t])
           st == IF msg \in {"Start", "Resume"} THEN "Running"
                 ELSE IF msg = "Pause" THEN "Paused"
                 ELSE IF msg = "Stop" THEN "Finished"
                 ELSE task_state[t]
       IN /\ control' = [control EXCEPT
                           ![t] = IF msg = "none" THEN @ ELSE Tail(@)]
          /\ task_state' = [task_state EXCEPT ![t] = st]
          /\ IF msg = "Reset" /\ t \in Jobs
             THEN /\ executions' = [executions EXCEPT ![t] = 0]
                  /\ deadline_misses' = [deadline_misses EXCEPT ![t] = 0]
             ELSE UNCHANGED rtstats
          /\ Goto(t, IF msg = "Stop" THEN "done"
                     ELSE IF msg = "Pause" THEN "wk_cond"
                     ELSE IF st = "Running" THEN Body(t)
                     ELSE "loop")
    /\ UNCHANGED <<bufferside, state, is_acquiring, todo, starts, cameras,
                   sequence_counter, last_processing, history, stop_flag,
                   threads, times, cbs, observed, configuration, ready,
                   period_ms, last_execution, next_scheduled, wake_at,
                   counter, sent, rt, sync, recorded, aside, api>>

\* while !*ready && !*stop_flag.lock().unwrap() { ready = cvar.wait(ready) }
\* continue: the worker leaves the wait once the condition's bool or the
\* stop flag is set.
WorkerWake(t) ==
    /\ pc[t] = "wk_cond"
    /\ ready \/ stop_flag
    /\ Goto(t, "loop")
    /\ UNCHANGED <<bufferside, pipe>>

\* ------------------------------------------------------------- the jobs

\* RtConfig.deadline_ms of the jobs.
deadline_ms == 1

\* TaskContext::time_until_next_execution: None for an aperiodic task, else
\* what is left of the period since the last execution started, and 0 for
\* the first execution.
time_until_next_execution(k) ==
    IF period_ms = 0 THEN None
    ELSE IF last_execution[k] # None
         THEN IF now - last_execution[k] >= period_ms THEN 0
              ELSE period_ms - (now - last_execution[k])
         ELSE 0

\* let wait_time = task_guard.time_until_next_execution(): when it is not
\* zero the worker drops the task's mutex and sleeps.
JobWait(k) ==
    /\ pc[k] = "job_wait"
    /\ LET wait_time == time_until_next_execution(k)
       IN IF wait_time # None /\ wait_time # 0
          THEN /\ wake_at' = [wake_at EXCEPT ![k] = now + wait_time]
               /\ Goto(k, "job_sleep")
          ELSE /\ Goto(k, "job_start")
               /\ UNCHANGED wake_at
    /\ UNCHANGED <<bufferside, lifecycle, cameras, sequence_counter,
                   last_processing, history, sched, times, cbs, observed,
                   configuration, ready, period_ms, last_execution,
                   next_scheduled, counter, sent, rtstats, rt, sync, recorded,
                   aside,
                   api>>

\* thread::sleep(duration) returns, not before the duration has elapsed;
\* task_guard = task_clone.lock().unwrap()
JobWake(k) ==
    /\ pc[k] = "job_sleep"
    /\ now >= wake_at[k]
    /\ wake_at' = [wake_at EXCEPT ![k] = None]
    /\ Goto(k, "job_start")
    /\ UNCHANGED <<bufferside, lifecycle, cameras, sequence_counter,
                   last_processing, history, sched, times, cbs, observed,
                   configuration, ready, period_ms, last_execution,
                   next_scheduled, counter, sent, rtstats, rt, sync, recorded,
                   aside,
                   api>>

\* task_guard.start_execution(): last_execution = now, and
\* RtContext::start_execution: next_scheduled = now + period for a periodic
\* task.
JobStart(k) ==
    /\ pc[k] = "job_start"
    /\ last_execution' = [last_execution EXCEPT ![k] = now]
    /\ next_scheduled' = IF period_ms > 0
                         THEN [next_scheduled EXCEPT ![k] = now + period_ms]
                         ELSE next_scheduled
    /\ Goto(k, "job_fn")
    /\ UNCHANGED <<bufferside, lifecycle, cameras, sequence_counter,
                   last_processing, history, sched, times, cbs, observed,
                   configuration, ready, period_ms, wake_at, counter, sent,
                   rtstats, rt, sync, recorded, aside, api>>

\* task_fn(&mut task_guard), the body of test_scheduler_basic: it counts,
\* sets the task Finished once the count has reached its target, and
\* returns Ok.
JobFn(k) ==
    /\ pc[k] = "job_fn"
    /\ counter' = [counter EXCEPT ![k] = @ + 1]
    /\ task_state' = IF counter[k] + 1 >= JobTarget
                     THEN [task_state EXCEPT ![k] = "Finished"]
                     ELSE task_state
    /\ Goto(k, "job_end")
    /\ UNCHANGED <<bufferside, state, is_acquiring, todo, starts, cameras,
                   sequence_counter, last_processing, history, sched, times,
                   cbs, observed, configuration, ready, period_ms,
                   last_execution, next_scheduled, wake_at, sent, rtstats, rt,
                   sync, recorded, aside, api>>

\* task_fn(&mut task_guard), a body that counts and returns Ok.
JobFnCount(k) ==
    /\ pc[k] = "job_fn"
    /\ counter' = [counter EXCEPT ![k] = @ + 1]
    /\ Goto(k, "job_end")
    /\ UNCHANGED <<bufferside, lifecycle, cameras, sequence_counter,
                   last_processing, history, sched, times, cbs, observed,
                   configuration, ready, period_ms, last_execution,
                   next_scheduled, wake_at, sent, rtstats, rt, sync, recorded,
                   aside,
                   api>>

\* task_fn(&mut task_guard), a body that returns Err.
JobFnErr(k) ==
    /\ pc[k] = "job_fn"
    /\ Goto(k, "job_err")
    /\ UNCHANGED <<bufferside, pipe>>

\* RtContext::end_execution: a deadline miss when the execution took more
\* than deadline_ms, executions += 1.
end_execution(k) ==
    /\ deadline_misses' =
           IF deadline_ms > 0 /\ now - last_execution[k] > deadline_ms
           THEN [deadline_misses EXCEPT ![k] = @ + 1]
           ELSE deadline_misses
    /\ executions' = [executions EXCEPT ![k] = @ + 1]

\* task_guard.end_execution(); the body returned Ok: drop(task_guard)
JobEnd(k) ==
    /\ pc[k] = "job_end"
    /\ end_execution(k)
    /\ Goto(k, "loop")
    /\ UNCHANGED <<bufferside, lifecycle, cameras, sequence_counter,
                   last_processing, history, sched, times, cbs, observed,
                   configuration, ready, period_ms, last_execution,
                   next_scheduled, wake_at, counter, sent, rt, sync, recorded,
                   aside,
                   api>>

\* task_guard.end_execution(); the body returned Err:
\* set_state(TaskState::Error); break
JobErr(k) ==
    /\ pc[k] = "job_err"
    /\ end_execution(k)
    /\ task_state' = [task_state EXCEPT ![k] = "Error"]
    /\ Goto(k, "done")
    /\ UNCHANGED <<bufferside, state, is_acquiring, todo, starts, cameras,
                   sequence_counter, last_processing, history, sched, times,
                   cbs, observed, configuration, ready, period_ms,
                   last_execution, next_scheduled, wake_at, counter, sent, rt,
                   sync, recorded, aside, api>>

\* A millisecond passes while a job sleeps, its wake-up no later than
\* MaxLate after the sleep is due to end, or while its body runs, which
\* takes at most MaxBody.  The other steps of the worker take no time.
ClockTick ==
    /\ now < MaxTime
    /\ \A k \in active \cap Jobs :
           \/ pc[k] = "job_sleep" /\ now < wake_at[k] + MaxLate
           \/ pc[k] = "job_fn" /\ now - last_execution[k] < MaxBody
    /\ now' = now + 1
    /\ UNCHANGED <<bufferside, pc, lifecycle, cameras, sequence_counter,
                   last_processing, history, sched, last_acquisition,
                   last_processing_at, acquisition_time, cbs, observed,
                   settings, api>>

\* get_control_sender().send(msg), by a thread that holds a clone of the
\* job's sender.
Send(k, msg) ==
    /\ sent < MaxMessages
    /\ sent' = sent + 1
    /\ control' = [control EXCEPT ![k] = Append(@, msg)]
    /\ UNCHANGED <<bufferside, pc, lifecycle, cameras, sequence_counter,
                   last_processing, history, stop_flag, threads, times, cbs,
                   observed, configuration, ready, period_ms, last_execution,
                   next_scheduled, wake_at, counter, rtstats, rt, sync,
                   recorded, aside, api>>

\* TaskScheduler::start_all: tasks.lock()
SchedStartAll(t) ==
    /\ pc[t] = "ctl_idle"
    /\ starts < MaxStarts
    /\ starts' = starts + 1
    /\ todo' = TaskList
    /\ Goto(t, "ctl_tasks")
    /\ UNCHANGED <<bufferside, state, is_acquiring, task_state, cameras,
                   sequence_counter, last_processing, history, sched, times,
                   cbs, observed, settings, api>>

\* TaskScheduler::start_all returns Ok
SchedStartAllDone(t) ==
    /\ pc[t] = "ctl_tasks"
    /\ todo = <<>>
    /\ Goto(t, "ctl_idle")
    /\ UNCHANGED <<bufferside, pipe>>

\* TaskScheduler::stop_all: tasks.lock()
SchedStopAll(t) ==
    /\ pc[t] = "ctl_idle"
    /\ ~stop_flag
    /\ todo' = TaskList
    /\ Goto(t, "ctl_stop_tasks")
    /\ UNCHANGED <<bufferside, state, is_acquiring, task_state, starts,
                   cameras, sequence_counter, last_processing, history, sched,
                   times, cbs, observed, settings, api>>

\* TaskScheduler::join_all returns Ok
SchedJoinDone(t) ==
    /\ pc[t] = "ctl_join"
    /\ threads = <<>>
    /\ Goto(t, "ctl_joined")
    /\ UNCHANGED <<bufferside, pipe>>

\* ------------------------------------------- heimdall_rt::init_rt_environment

\* The CPU indices that a configuration may name: the last one is beyond
\* what a CpuSet holds.
Cpus == 0..CpuSetSize

RtConfigs == [lock_memory : BOOLEAN, cpu_affinity : SUBSET Cpus,
              use_rt_scheduler : BOOLEAN]

\* The platform: the target of the build, what mlockall and
\* sched_setscheduler answer to this process, and the CPUs that exist.
Platforms == [linux : BOOLEAN, mlockall : {"Ok", "Err"},
              cpus : SUBSET (0..(CpuSetSize - 1)),
              sched_setaffinity : {"Ok", "Err"},
              sched_setscheduler : {"Ok", "Err"}]

\* cpu_set.set(*cpu)? for every cpu, then sched_setaffinity(Pid::this(),
\* &cpu_set), which the kernel refuses for a mask without an existing CPU.
set_affinity(affinity, o) ==
    IF \E cpu \in affinity : cpu >= CpuSetSize THEN "Err"
    ELSE IF affinity \cap o.cpus = {} THEN "Err"
    ELSE o.sched_setaffinity

\* init_rt_environment: what it does to the calling thread, and what it
\* returns.  On Linux each refusal of the system is returned as
\* Err(RtError::SystemError) at once; on another platform each request is
\* skipped with a warning.
init_rt_environment(c, o) ==
    LET lock == c.lock_memory /\ o.linux
        pin == c.cpu_affinity # {} /\ o.linux
        rtprio == c.use_rt_scheduler /\ o.linux
    IN IF lock /\ o.mlockall = "Err"
       THEN [res |-> "Err", locked |-> FALSE, pinned |-> FALSE,
             priority |-> "normal"]
       ELSE IF pin /\ set_affinity(c.cpu_affinity, o) = "Err"
       THEN [res |-> "Err", locked |-> lock, pinned |-> FALSE,
             priority |-> "normal"]
       ELSE IF rtprio /\ o.sched_setscheduler = "Err"
       THEN [res |-> "Err", locked |-> lock, pinned |-> pin,
             priority |-> "normal"]
       ELSE [res |-> "Ok", locked |-> lock, pinned |-> pin,
             priority |-> IF rtprio THEN "SCHED_FIFO" ELSE "normal"]

\* TaskScheduler::spawn_rt_task, up to the creation of the thread:
\* task_context.init_rt()? returns the error of init_rt_environment, and
\* only after Ok is the task added and its thread spawned.
SpawnRtTask ==
    /\ spawned.res = "none"
    /\ LET r == init_rt_environment(rt_config, os)
       IN spawned' = [res |-> r.res, thread |-> r.res = "Ok",
                      pinned |-> r.pinned, priority |-> r.priority,
                      locked |-> r.locked]
    /\ UNCHANGED <<bufferside, pc, core, jobs, rt_config, os, sync, recorded,
                 aside>>

\* ------------------------------------------------------ PipelineMetrics

\* MetricExt::get_counter for Counter: the value of the counter is not
\* read, the method returns 0.
get_counter(value) == 0

\* PipelineMetrics::get_stats, for the fields that are counters.
get_stats(m) ==
    [total_frames_acquired |-> get_counter(m.frames_acquired),
     total_frames_processed |-> get_counter(m.frames_processed),
     total_frames_dropped |-> get_counter(m.frames_dropped),
     buffer_overflows |-> get_counter(m.buffer_overflows),
     desync_events |-> get_counter(m.desync_events),
     recovery_events |-> get_counter(m.recovery_events)]

\* What a call of a PipelineMetrics' method by any thread leaves unchanged.
MetricsOnly ==
    UNCHANGED <<bufferside, pc, lifecycle, cameras, sequence_counter,
                last_processing, history, sched, times, cbs, configuration,
                ready, jobs, rt, sync, stamps, api>>

\* A call of the method by some thread.
Called(method) ==
    /\ recorded[method] < MaxRecords
    /\ recorded' = [recorded EXCEPT ![method] = @ + 1]

\* while let Some(timestamp) = history.front() { if *timestamp < cutoff
\* { history.pop_front(); } else { break; } }
RECURSIVE PopOld(_, _)
PopOld(h, cutoff) ==
    IF h # <<>> /\ Head(h) < cutoff THEN PopOld(Tail(h), cutoff) ELSE h

\* history.push_back(Instant::now()), then the entries older than the
\* window are removed from the front.
Pushed(h, t) == PopOld(Append(h, t), t - METRICS_WINDOW)

\* What get_stats counts of a history at instant t: all its entries,
\* history.len(), whatever their age.
Kept(h, t) == h

\* update_metrics_if_needed, called by a thread that holds the mutexes
\* mine: it locks last_update and, when the interval has elapsed, stores
\* the instant and locks acquisition_history, then processing_history. A
\* mutex that is held by a blocked caller, or by the calling thread itself,
\* is never obtained: the caller then blocks for ever with the mutexes it
\* holds.
update_metrics_if_needed(mine) ==
    IF "last_update" \in held
    THEN /\ held' = held \cup mine
         /\ UNCHANGED last_update
    ELSE IF now - last_update >= METRICS_UPDATE_INTERVAL
    THEN /\ last_update' = now
         /\ held' = IF (held \cup mine) \cap {"acquisition_history",
                                             "processing_history"} # {}
                    THEN held \cup mine \cup {"last_update"}
                    ELSE held
    ELSE UNCHANGED <<last_update, held>>

\* PipelineMetrics::record_acquisition: self.frames_acquired.increment(1);
\* the instant is pushed on acquisition_history, which is pruned; then
\* update_metrics_if_needed() is called with the history's mutex held.
record_acquisition ==
    /\ Called("record_acquisition")
    /\ Count("frames_acquired")
    /\ IF "acquisition_history" \in held
       THEN UNCHANGED <<acquisition_history, last_update, held, events>>
       ELSE /\ acquisition_history' = Pushed(acquisition_history, now)
            /\ events' = [events EXCEPT !.acquisition = Append(@, now)]
            /\ update_metrics_if_needed({"acquisition_history"})
    /\ UNCHANGED <<stats, processing_history, rates>>
    /\ MetricsOnly

\* PipelineMetrics::record_processing: self.frames_processed.increment(1);
\* the instant is pushed on processing_history, which is pruned; then
\* update_metrics_if_needed() is called with the history's mutex held.
record_processing ==
    /\ Called("record_processing")
    /\ Count("frames_processed")
    /\ IF "processing_history" \in held
       THEN UNCHANGED <<processing_history, last_update, held, events>>
       ELSE /\ processing_history' = Pushed(processing_history, now)
            /\ events' = [events EXCEPT !.processing = Append(@, now)]
            /\ update_metrics_if_needed({"processing_history"})
    /\ UNCHANGED <<stats, acquisition_history, rates>>
    /\ MetricsOnly

\* PipelineMetrics::record_dropped_frame: self.frames_dropped.increment(1);
\* self.update_metrics_if_needed()
record_dropped_frame ==
    /\ Called("record_dropped_frame")
    /\ Count("frames_dropped")
    /\ update_metrics_if_needed({})
    /\ UNCHANGED <<stats, acquisition_history, processing_history, events,
                   rates>>
    /\ MetricsOnly

\* let stats = metrics.get_stats(): both histories are locked, the rates
\* are their lengths over METRICS_WINDOW_SECONDS. A caller that does not
\* obtain a history's mutex does not return.
GetStats ==
    /\ Called("get_stats")
    /\ IF "acquisition_history" \in held
       THEN UNCHANGED <<stats, rates, held>>
       ELSE IF "processing_history" \in held
       THEN /\ held' = held \cup {"acquisition_history"}
            /\ UNCHANGED <<stats, rates>>
       ELSE /\ stats' = get_stats(metrics)
            /\ rates' = [at |-> now,
                         acquisition |-> Len(Kept(acquisition_history, now)),
                         processing |-> Len(Kept(processing_history, now))]
            /\ UNCHANGED held
    /\ UNCHANGED <<metrics, acquisition_history, processing_history,
                   last_update, events>>
    /\ MetricsOnly

\* Time passes on the clock that the PipelineMetrics reads.
MetricsClock ==
    /\ now < MaxMetricsTime
    /\ now' = now + 1
    /\ UNCHANGED <<bufferside, pc, lifecycle, cameras, sequence_counter,
                   last_processing, history, sched, last_acquisition,
                   last_processing_at, acquisition_time, cbs, observed,
                   settings, api>>

\* ------------------------------------------------------------- Timestamp

\* What a step of Timestamp::now, or of the system clock, leaves unchanged.
StampsOnly ==
    UNCHANGED <<bufferside, lifecycle, cameras, sequence_counter,
                last_processing, history, sched, times, cbs, observed,
                configuration, ready, jobs, rt, sync, recorded, rated, api>>

\* Timestamp::now calls begun so far.
StampsBegun ==
    GLOBAL_COUNTER + Cardinality({s \in Stampers : pc[s] = "ts_counter"})

\* now.duration_since(UNIX_EPOCH).unwrap_or(Duration::from_secs(0))
duration_since_epoch(t) == IF t < 0 THEN 0 ELSE t

\* Duration::as_secs, Duration::subsec_nanos
as_secs(d) == d \div NanosPerSecond
subsec_nanos(d) == d % NanosPerSecond

\* #[derive(PartialOrd, Ord)] on Timestamp: the fields are compared in the
\* order of their declaration, seconds, nanoseconds, monotonic_counter.
Less(a, b) ==
    \/ a.seconds < b.seconds
    \/ /\ a.seconds = b.seconds
       /\ \/ a.nanoseconds < b.nanoseconds
          \/ /\ a.nanoseconds = b.nanoseconds
             /\ a.monotonic_counter < b.monotonic_counter

\* let now = SystemTime::now(); let duration = now.duration_since(...)
NowSystemTime(s) ==
    /\ pc[s] = "idle"
    /\ StampsBegun < MaxStamps
    /\ duration' = [duration EXCEPT ![s] = duration_since_epoch(system_time)]
    /\ began' = [began EXCEPT ![s] = Len(issued)]
    /\ pc' = [pc EXCEPT ![s] = "ts_counter"]
    /\ UNCHANGED <<system_time, corrected, GLOBAL_COUNTER, issued>>
    /\ StampsOnly

\* let counter = GLOBAL_COUNTER.fetch_add(1, Ordering::SeqCst); Self {...}
NowCounter(s) ==
    /\ pc[s] = "ts_counter"
    /\ GLOBAL_COUNTER' = GLOBAL_COUNTER + 1
    /\ issued' = Append(issued,
                        [seconds |-> as_secs(duration[s]),
                         nanoseconds |-> subsec_nanos(duration[s]),
                         monotonic_counter |-> GLOBAL_COUNTER,
                         began |-> began[s]])
    /\ pc' = [pc EXCEPT ![s] = "idle"]
    /\ UNCHANGED <<system_time, corrected, duration, began>>
    /\ StampsOnly

\* Time passes on the system clock.
SystemClockAdvance ==
    /\ system_time < MaxSystemTime
    /\ system_time' = system_time + 1
    /\ UNCHANGED <<pc, corrected, GLOBAL_COUNTER, duration, began, issued>>
    /\ StampsOnly

\* The system clock is corrected: it is set to an earlier instant, which
\* may be one before UNIX_EPOCH.
SystemClockCorrection ==
    /\ ~corrected
    /\ \E t \in -1..(system_time - 1) : system_time' = t
    /\ corrected' = TRUE
    /\ UNCHANGED <<pc, GLOBAL_COUNTER, duration, began, issued>>
    /\ StampsOnly

\* ------------------------------------------------- gige's SyncManager

\* The configurations given to set_config.
SyncConfigs == [mode : SyncModes, trigger_source : TriggerSources,
                trigger_delay_us : {0}, trigger_interval_us : {33333}]

SyncReturn(op, res) == sync_call' = [op |-> op, res |-> res]

\* What a call of the SyncManager leaves unchanged.
SyncOnly ==
    UNCHANGED <<bufferside, pc, lifecycle, cameras, sequence_counter,
                last_processing, history, sched, last_acquisition,
                last_processing_at, acquisition_time, cbs, observed,
                configuration, ready, jobs, rt, recorded, aside, api>>

\* SyncManager::set_mode
SyncSetMode(mode) ==
    /\ sync_manager' = [sync_manager EXCEPT !.mode = mode,
                                            !.config.mode = mode]
    /\ SyncReturn("set_mode", "Ok")
    /\ UNCHANGED <<now, triggered, trigger_times>>
    /\ SyncOnly

\* SyncManager::set_config
SyncSetConfig(c) ==
    /\ sync_manager' = [sync_manager EXCEPT !.config = c, !.mode = c.mode]
    /\ SyncReturn("set_config", "Ok")
    /\ UNCHANGED <<now, triggered, trigger_times>>
    /\ SyncOnly

\* A start that would reset the count of an active manager too.
SyncStartAlways ==
    /\ sync_manager' = [sync_manager EXCEPT !.is_active = TRUE,
                                            !.trigger_count = 0,
                                            !.last_trigger_time = None,
                                            !.trigger_intervals = <<>>]
    /\ triggered' = IF sync_manager.is_active THEN triggered ELSE 0
    /\ trigger_times' = IF sync_manager.is_active THEN trigger_times ELSE <<>>
    /\ SyncReturn("start", "Ok")
    /\ UNCHANGED now
    /\ SyncOnly

\* SyncManager::start: Ok at once when already active, else the manager
\* becomes active with its count and its history cleared;
\* configure_hardware returns Ok.
SyncStart ==
    /\ IF sync_manager.is_active
       THEN UNCHANGED <<sync_manager, triggered, trigger_times>>
       ELSE /\ sync_manager' = [sync_manager EXCEPT !.is_active = TRUE,
                                                    !.trigger_count = 0,
                                                    !.last_trigger_time = None,
                                                    !.trigger_intervals = <<>>]
            /\ triggered' = 0
            /\ trigger_times' = <<>>
    /\ SyncReturn("start", "Ok")
    /\ UNCHANGED now
    /\ SyncOnly

\* SyncManager::stop: Ok at once when not active, else the manager becomes
\* inactive; stop_hardware returns Ok.
SyncStop ==
    /\ sync_manager' = [sync_manager EXCEPT !.is_active = FALSE]
    /\ SyncReturn("stop", "Ok")
    /\ UNCHANGED <<now, triggered, trigger_times>>
    /\ SyncOnly

\* A history that would keep every interval.
PushIntervalKeepAll(m, t) ==
    IF m.last_trigger_time = None THEN m.trigger_intervals
    ELSE Append(m.trigger_intervals, t - m.last_trigger_time)

\* trigger_intervals after a trigger at instant t: the interval since the
\* last trigger is pushed, the oldest one removed first when the history is
\* full.
PushInterval(m, t) ==
    IF m.last_trigger_time = None THEN m.trigger_intervals
    ELSE Append(IF Len(m.trigger_intervals) >= WindowLimit
                THEN Tail(m.trigger_intervals)
                ELSE m.trigger_intervals,
                t - m.last_trigger_time)

\* A trigger that would count before it checks that the manager is active
\* and not in Freerun mode.
SyncTriggerUnchecked ==
    /\ sync_manager.trigger_count < MaxTriggers
    /\ \E dt \in {0, 1} :
          /\ now + dt <= MaxSyncTime
          /\ now' = now + dt
          /\ sync_manager' =
                 [sync_manager EXCEPT
                    !.trigger_intervals = PushInterval(sync_manager, now'),
                    !.last_trigger_time = now',
                    !.trigger_count = @ + 1]
          /\ IF ~sync_manager.is_active \/ sync_manager.mode = "Freerun"
             THEN /\ SyncReturn("trigger", "Err")
                  /\ UNCHANGED <<triggered, trigger_times>>
             ELSE /\ SyncReturn("trigger", "Ok")
                  /\ triggered' = triggered + 1
                  /\ trigger_times' = Append(trigger_times, now')
    /\ SyncOnly

\* SyncManager::trigger: Err when the manager is not active or in Freerun
\* mode; else the interval since the last trigger is recorded, the instant
\* kept, the count incremented; trigger_hardware returns Ok.
SyncTrigger ==
    IF ~sync_manager.is_active \/ sync_manager.mode = "Freerun"
    THEN /\ SyncReturn("trigger", "Err")
         /\ UNCHANGED <<sync_manager, triggered, trigger_times, now>>
         /\ SyncOnly
    ELSE /\ sync_manager.trigger_count < MaxTriggers
         /\ \E dt \in {0, 1} :
               /\ now + dt <= MaxSyncTime
               /\ now' = now + dt
               /\ sync_manager' =
                      [sync_manager EXCEPT
                         !.trigger_intervals = PushInterval(sync_manager, now'),
                         !.last_trigger_time = now',
                         !.trigger_count = @ + 1]
         /\ triggered' = triggered + 1
         /\ trigger_times' = Append(trigger_times, now')
         /\ SyncReturn("trigger", "Ok")
         /\ SyncOnly

\* ------------------------------------------------- the acquisition task

\* What a camera delivers: the length of the frame's data, which may exceed
\* the slot's, and its dimensions.
CameraFrames == {[len |-> MaxImageSize, width |-> 1, height |-> 1],
                 [len |-> MaxImageSize + 1, width |-> 1, height |-> 1]}

\* frame.data.len().min(slot.data.len())
CopyLen(frame_len, slot_len) ==
    IF frame_len < slot_len THEN frame_len ELSE slot_len

\* A faulty acquisition body that does not hold the cameras' mutex.
AcqLockFree(t) ==
    /\ pc[t] = "acq_lock"
    /\ is_acquiring
    /\ frames < MaxAcquired
    /\ sequence_counter' = sequence_counter + 1
    /\ acquisition_time' = [acquisition_time EXCEPT ![t] = now]
    /\ Local(t, 0, 0, sequence_counter + 1, NoImage)
    /\ Goto(t, ReserveEntry(t))
    /\ UNCHANGED <<bufvars, frames, resets, active, ghost, lifecycle, cameras,
                   last_processing, history, sched, now, last_acquisition,
                   last_processing_at, cbs, observed, settings, api>>

\* cameras.lock(); camera.acquire_frame().  A camera that is not acquiring,
\* or that fails, returns an error: the body returns Err and the worker sets
\* the task to Error and leaves its loop.  A camera whose frame is not
\* there yet keeps the body waiting inside acquire_frame, which takes no
\* timeout (acquisition_time then holds the time the wait began).
\* Otherwise the body notes the time and takes the next sequence from the
\* counter.
AcqLock(t) ==
    /\ pc[t] = "acq_lock"
    /\ cameras = "none"
    /\ IF ~is_acquiring \/ camera_fault[t] = "error"
       THEN /\ task_state' = [task_state EXCEPT ![t] = "Error"]
            /\ Goto(t, "done")
            /\ UNCHANGED <<cameras, sequence_counter, locals,
                           acquisition_time>>
       ELSE IF camera_fault[t] = "stall"
       THEN /\ cameras' = t
            /\ acquisition_time' = [acquisition_time EXCEPT ![t] = now]
            /\ Goto(t, "acq_wait")
            /\ UNCHANGED <<task_state, sequence_counter, locals>>
       ELSE /\ frames < MaxAcquired
            /\ cameras' = t
            /\ sequence_counter' = sequence_counter + 1
            /\ acquisition_time' = [acquisition_time EXCEPT ![t] = now]
            /\ Local(t, 0, 0, sequence_counter + 1, NoImage)
            /\ Goto(t, ReserveEntry(t))
            /\ UNCHANGED task_state
    /\ UNCHANGED <<bufvars, frames, resets, active, ghost, state, is_acquiring,
                   todo, starts, last_processing, history, sched, now,
                   last_acquisition, last_processing_at, cbs, observed,
                   settings, api>>

\* acquire_frame returns the frame at last, however long the wait was: the
\* body goes on as for any frame.
AcqArrive(t) ==
    /\ pc[t] = "acq_wait"
    /\ frames < MaxAcquired
    /\ sequence_counter' = sequence_counter + 1
    /\ acquisition_time' = [acquisition_time EXCEPT ![t] = now]
    /\ Local(t, 0, 0, sequence_counter + 1, NoImage)
    /\ Goto(t, ReserveEntry(t))
    /\ UNCHANGED <<bufvars, frames, resets, active, ghost, lifecycle, cameras,
                   last_processing, history, sched, now, last_acquisition,
                   last_processing_at, cbs, observed, settings, api>>

\* The body copies the frame into the slot it reserved.
AcqFill(t) ==
    /\ pc[t] = "acq_fill"
    /\ \E f \in CameraFrames :
          heap' = [heap EXCEPT
                     ![slot_ref[t]].size = CopyLen(f.len, MaxImageSize),
                     ![slot_ref[t]].width = f.width,
                     ![slot_ref[t]].height = f.height]
    /\ Local(t, slot_index[t], 0, sequence[t], NoImage)
    /\ Goto(t, "cw_load")
    /\ UNCHANGED <<config, slots, ring, counters, frames, resets, world, ghost>>

\* After commit_write: *last_acquisition = Some(acquisition_time);
\* metrics.record_acquisition(..); the body returns Ok and its guard on the
\* cameras is dropped.
AcqEnd(t) ==
    /\ pc[t] = "acq_end"
    /\ last_acquisition' = acquisition_time[t]
    /\ acquisition_time' = [acquisition_time EXCEPT ![t] = 0]
    /\ Count("frames_acquired")
    /\ cameras' = "none"
    /\ ClearLocals(t)
    /\ Goto(t, "loop")
    /\ UNCHANGED <<bufvars, frames, resets, active, ghost, lifecycle,
                   sequence_counter, last_processing, history, sched, now,
                   last_processing_at, cbs, stats, settings, api>>

\* reserve_write_slot returned Err: metrics.record_dropped_frame();
\* metrics.record_buffer_overflow(); the body returns Ok.
AcqDrop(t) ==
    /\ pc[t] = "acq_drop"
    /\ metrics' = [metrics EXCEPT !.frames_dropped = @ + 1,
                                  !.buffer_overflows = @ + 1]
    /\ acquisition_time' = [acquisition_time EXCEPT ![t] = 0]
    /\ cameras' = "none"
    /\ ClearLocals(t)
    /\ Goto(t, "loop")
    /\ UNCHANGED <<bufvars, frames, resets, active, ghost, lifecycle,
                   sequence_counter, last_processing, history, sched, now,
                   last_acquisition, last_processing_at, cbs, stats,
                   settings, api>>

\* -------------------------------------------------- the processing task

\* PipelineImage::from_buffer_slot(slot)
ProcImage(t) ==
    /\ pc[t] = "proc_image"
    /\ Local(t, slot_index[t], 0, 0, Image(heap[slot_ref[t]]))
    /\ Goto(t, "proc_stamp")
    /\ UNCHANGED <<bufvars, frames, resets, world, ghost>>

\* *last_processing.lock().unwrap() = Some(processing_time).  The lock waits
\* while another thread holds the mutex and panics when the mutex is
\* poisoned.
ProcStamp(t) ==
    /\ pc[t] = "proc_stamp"
    /\ last_processing \in {"free", "poisoned"}
    /\ IF last_processing = "free"
       THEN /\ last_processing_at' = now
            /\ Goto(t, "proc_deliver")
            /\ UNCHANGED locals
       ELSE /\ ClearLocals(t)
            /\ Goto(t, "panicked")
            /\ UNCHANGED last_processing_at
    /\ UNCHANGED <<bufvars, frames, resets, active, ghost, lifecycle, cameras,
                   sequence_counter, last_processing, history, sched, now,
                   last_acquisition, acquisition_time, cbs, observed,
                   settings, api>>

\* A faulty processing body that stops calling callbacks at the first one
\* that returns Err.
ProcDeliverUntilErr(t) ==
    /\ pc[t] = "proc_deliver"
    /\ callbacks_lock = "none"
    /\ callbacks_lock' = t
    /\ \E r \in [1..processor_callbacks -> {"Ok", "Err"}] :
          invoked' = IF \E i \in 1..processor_callbacks : r[i] = "Err"
                     THEN SubSeq(r, 1, CHOOSE i \in 1..processor_callbacks :
                                          /\ r[i] = "Err"
                                          /\ \A j \in 1..(i - 1) : r[j] = "Ok")
                     ELSE r
    /\ delivered' = Append(delivered, image[t].sequence)
    /\ Local(t, slot_index[t], 0, 0, NoImage)
    /\ Goto(t, "cr_load")
    /\ UNCHANGED <<bufvars, frames, resets, active, ghost, lifecycle, cameras,
                   sequence_counter, last_processing, epoch, sched, times,
                   observed, settings, api>>

\* processor_callbacks.lock(); for callback in callbacks.iter(): every
\* callback is called with the image, in the order of registration, and
\* what it returns is only logged.  The guard on the callbacks is held to
\* the end of the body.
ProcDeliver(t) ==
    /\ pc[t] = "proc_deliver"
    /\ callbacks_lock = "none"
    /\ callbacks_lock' = t
    /\ \E r \in [1..processor_callbacks -> {"Ok", "Err"}] : invoked' = r
    /\ delivered' = Append(delivered, image[t].sequence)
    /\ Local(t, slot_index[t], 0, 0, NoImage)
    /\ Goto(t, "cr_load")
    /\ UNCHANGED <<bufvars, frames, resets, active, ghost, lifecycle, cameras,
                   sequence_counter, last_processing, epoch, sched, times,
                   observed, settings, api>>

\* After commit_read: metrics.record_processing(..); the body returns Ok and
\* its guard on the callbacks is dropped.
ProcEnd(t) ==
    /\ pc[t] = "proc_end"
    /\ Count("frames_processed")
    /\ callbacks_lock' = "none"
    /\ Goto(t, "loop")
    /\ UNCHANGED <<bufferside, lifecycle, cameras, sequence_counter,
                   last_processing, history, sched, times, invoked, stats,
                   settings, api>>

\* read_slot returned Err.  With enable_auto_recovery the body locks
\* last_processing and then locks it again while it holds the first guard:
\* the second lock never returns, it blocks for ever or panics (which
\* poisons the mutex), whichever the platform's Mutex does.  The comparison
\* of the timestamps, buffer.reset() and the two metrics come after it.
ProcErr(t) ==
    /\ pc[t] = "proc_err"
    /\ IF ~enable_auto_recovery
       THEN /\ Goto(t, "loop")
            /\ UNCHANGED last_processing
       ELSE /\ last_processing \in {"free", "poisoned"}
            /\ IF last_processing = "free"
               THEN \/ /\ last_processing' = t
                       /\ Goto(t, "hung")
                    \/ /\ last_processing' = "poisoned"
                       /\ Goto(t, "panicked")
               ELSE /\ Goto(t, "panicked")
                    /\ UNCHANGED last_processing
    /\ UNCHANGED <<bufferside, lifecycle, cameras, sequence_counter, history,
                   sched, times, cbs, observed, settings, api>>

\* -------------------------------------------------- the monitoring task

\* let current_stats = metrics.get_stats(); *stats_guard = current_stats,
\* once the task's period has elapsed.
MonBody(t) ==
    /\ pc[t] = "mon_sleep"
    /\ stats' = get_stats(metrics)
    /\ Goto(t, "loop")
    /\ UNCHANGED <<bufferside, lifecycle, cameras, sequence_counter,
                   last_processing, history, sched, times, cbs, metrics,
                   settings, api>>

\* ------------------------------------------------------------ the clock

Tick ==
    /\ now < MaxTicks * TickMs
    /\ now' = now + TickMs
    /\ UNCHANGED <<bufferside, pc, lifecycle, cameras, sequence_counter,
                   last_processing, history, sched, last_acquisition,
                   last_processing_at, acquisition_time, cbs, observed,
                   settings, api>>

\* --------------------------------------- AcquisitionPipeline::initialize

ApiBegin(op) == api' = [op |-> op, res |-> "pending", from |-> state]
ApiEnd(res) == api' = [api EXCEPT !.res = res]
ApiRejected(op) == api' = [op |-> op, res |-> "Err", from |-> state]

\* What is left unchanged by a call that only returns.
ReturnOnly(t) ==
    /\ pc[t] = "ctl_idle"
    /\ UNCHANGED <<bufferside, pc, lifecycle, cameras, sequence_counter,
                   last_processing, history, sched, times, cbs, observed,
                   settings>>

\* The state is not Uninitialized: Err.
CtlInitializeRejected(t) ==
    /\ state # "Uninitialized"
    /\ ApiRejected("initialize")
    /\ ReturnOnly(t)

\* initialize_cameras()?; create_acquisition_tasks()?; .. ; *state = Ready.
\* Creating or initializing a camera may fail (CameraError) and so may
\* init_rt in spawn_rt_task for the first task (RtError), before any thread
\* exists: initialize returns the error and the state is not written.
\* Otherwise every task has its thread, which waits to be started.
CtlInitialize(t) ==
    /\ pc[t] = "ctl_idle"
    /\ state = "Uninitialized"
    /\ \E outcome \in {"Ok", "CameraError", "RtError"} :
          IF outcome = "Ok"
          THEN /\ pc' = [u \in Threads |->
                           IF u \in active \cap Tasks THEN "loop" ELSE pc[u]]
               /\ threads' = TaskList
               /\ state' = "Ready"
               /\ api' = [op |-> "initialize", res |-> "Ok", from |-> state]
          ELSE /\ api' = [op |-> "initialize", res |-> "Err", from |-> state]
               /\ UNCHANGED <<pc, threads, state>>
    /\ UNCHANGED <<bufferside, is_acquiring, task_state, todo, starts, cameras,
                   sequence_counter, last_processing, history, stop_flag,
                   control, times, cbs, observed, settings>>

\* ------------------------------------------ AcquisitionPipeline::start

\* The state is neither Ready nor Paused: Err.
CtlStartRejected(t) ==
    /\ state \notin {"Ready", "Paused"}
    /\ ApiRejected("start")
    /\ ReturnOnly(t)

\* The state is Ready or Paused.
CtlStart(t) ==
    /\ pc[t] = "ctl_idle"
    /\ starts < MaxStarts
    /\ state \in {"Ready", "Paused"}
    /\ starts' = starts + 1
    /\ ApiBegin("start")
    /\ Goto(t, "ctl_cameras")
    /\ UNCHANGED <<bufferside, state, is_acquiring, task_state, todo, cameras,
                   sequence_counter, last_processing, history, sched, times,
                   cbs, observed, settings>>

\* cameras.lock(); camera.start_acquisition() for every camera
CtlStartCameras(t) ==
    /\ pc[t] = "ctl_cameras"
    /\ cameras = "none"
    /\ is_acquiring' = TRUE
    /\ todo' = TaskList
    /\ Goto(t, "ctl_tasks")
    /\ UNCHANGED <<bufferside, state, task_state, starts, cameras,
                   sequence_counter, last_processing, history, sched, times,
                   cbs, observed, settings, api>>

\* start_all: task.lock().unwrap(); set_state(Running); send(Start), for
\* the next task.  The lock waits for a worker that is inside its body and
\* panics when the worker panicked inside it.
CtlStartTask(t) ==
    /\ pc[t] = "ctl_tasks"
    /\ todo # <<>>
    /\ TaskMutexFree(Head(todo)) \/ pc[Head(todo)] = "panicked"
    /\ IF TaskMutexFree(Head(todo))
       THEN /\ task_state' = [task_state EXCEPT ![Head(todo)] = "Running"]
            /\ control' = [control EXCEPT ![Head(todo)] = Append(@, "Start")]
            /\ todo' = Tail(todo)
            /\ UNCHANGED pc
       ELSE /\ Goto(t, "panicked")
            /\ UNCHANGED <<task_state, control, todo>>
    /\ UNCHANGED <<bufferside, state, is_acquiring, starts, cameras,
                   sequence_counter, last_processing, history, stop_flag,
                   threads, times, cbs, observed, settings, api>>

\* *state = PipelineState::Running
CtlStartDone(t) ==
    /\ pc[t] = "ctl_tasks"
    /\ todo = <<>>
    /\ state' = "Running"
    /\ ApiEnd("Ok")
    /\ Goto(t, "ctl_idle")
    /\ UNCHANGED <<bufferside, is_acquiring, task_state, todo, starts, cameras,
                   sequence_counter, last_processing, history, sched, times,
                   cbs, observed, settings>>

\* ------------------------------------------ AcquisitionPipeline::pause

\* The state is not Running: Err.
CtlPauseRejected(t) ==
    /\ state # "Running"
    /\ ApiRejected("pause")
    /\ ReturnOnly(t)

\* The state is Running.
CtlPause(t) ==
    /\ pc[t] = "ctl_idle"
    /\ state = "Running"
    /\ ApiBegin("pause")
    /\ Goto(t, "ctl_pause")
    /\ UNCHANGED <<bufferside, lifecycle, cameras, sequence_counter,
                   last_processing, history, sched, times, cbs, observed,
                   settings>>

\* cameras.lock(); camera.stop_acquisition() for every camera
CtlPauseCameras(t) ==
    /\ pc[t] = "ctl_pause"
    /\ cameras = "none"
    /\ is_acquiring' = FALSE
    /\ Goto(t, "ctl_paused")
    /\ UNCHANGED <<bufferside, state, task_state, todo, starts, cameras,
                   sequence_counter, last_processing, history, sched, times,
                   cbs, observed, settings, api>>

\* *state = PipelineState::Paused
CtlPauseDone(t) ==
    /\ pc[t] = "ctl_paused"
    /\ state' = "Paused"
    /\ ApiEnd("Ok")
    /\ Goto(t, "ctl_idle")
    /\ UNCHANGED <<bufferside, is_acquiring, task_state, todo, starts, cameras,
                   sequence_counter, last_processing, history, sched, times,
                   cbs, observed, settings>>

\* ------------------------------------------- AcquisitionPipeline::stop

\* The state is neither Running nor Paused: Err.
CtlStopRejected(t) ==
    /\ state \notin {"Running", "Paused"}
    /\ ApiRejected("stop")
    /\ ReturnOnly(t)

\* A faulty stop that does not look at the state.
CtlStopUnguarded(t) ==
    /\ pc[t] = "ctl_idle"
    /\ ApiBegin("stop")
    /\ Goto(t, "ctl_stop")
    /\ UNCHANGED <<bufferside, lifecycle, cameras, sequence_counter,
                   last_processing, history, sched, times, cbs, observed,
                   settings>>

\* The state is Running or Paused.
CtlStop(t) ==
    /\ pc[t] = "ctl_idle"
    /\ state \in {"Running", "Paused"}
    /\ ApiBegin("stop")
    /\ Goto(t, "ctl_stop")
    /\ UNCHANGED <<bufferside, lifecycle, cameras, sequence_counter,
                   last_processing, history, sched, times, cbs, observed,
                   settings>>

\* cameras.lock(); camera.stop_acquisition() for every camera
CtlStopCameras(t) ==
    /\ pc[t] = "ctl_stop"
    /\ cameras = "none"
    /\ is_acquiring' = FALSE
    /\ todo' = TaskList
    /\ Goto(t, "ctl_stop_tasks")
    /\ UNCHANGED <<bufferside, state, task_state, starts, cameras,
                   sequence_counter, last_processing, history, sched, times,
                   cbs, observed, settings, api>>

\* stop_all: task.lock().unwrap(); send(Stop), for the next task.  The lock
\* waits for a worker that is inside its body and panics when the worker
\* panicked inside it.
CtlStopTask(t) ==
    /\ pc[t] = "ctl_stop_tasks"
    /\ todo # <<>>
    /\ TaskMutexFree(Head(todo)) \/ pc[Head(todo)] = "panicked"
    /\ IF TaskMutexFree(Head(todo))
       THEN /\ control' = [control EXCEPT ![Head(todo)] = Append(@, "Stop")]
            /\ todo' = Tail(todo)
            /\ UNCHANGED pc
       ELSE /\ Goto(t, "panicked")
            /\ UNCHANGED <<control, todo>>
    /\ UNCHANGED <<bufferside, state, is_acquiring, task_state, starts,
                   cameras, sequence_counter, last_processing, history,
                   stop_flag, threads, times, cbs, observed, settings, api>>

\* stop_all: *self.stop_flag.lock().unwrap() = true; *ready = true;
\* cvar.notify_all()
CtlStopFlag(t) ==
    /\ pc[t] = "ctl_stop_tasks"
    /\ todo = <<>>
    /\ stop_flag' = TRUE
    /\ ready' = TRUE
    /\ Goto(t, "ctl_join")
    /\ UNCHANGED <<bufferside, lifecycle, cameras, sequence_counter,
                   last_processing, history, control, threads, times, cbs,
                   observed, configuration, apart, api>>

\* join_all: threads.pop(), handle.join(): the join returns when the thread
\* has ended, with Err when it ended in a panic, and then stop returns the
\* error.  There is no limit on the time it waits.
CtlJoin(t) ==
    /\ pc[t] = "ctl_join"
    /\ threads # <<>>
    /\ pc[threads[Len(threads)]] \in {"done", "panicked"}
    /\ threads' = SubSeq(threads, 1, Len(threads) - 1)
    /\ IF pc[threads[Len(threads)]] = "done"
       THEN UNCHANGED <<pc, api>>
       ELSE /\ Goto(t, "ctl_idle")
            /\ ApiEnd("Err")
    /\ UNCHANGED <<bufferside, lifecycle, cameras, sequence_counter,
                   last_processing, history, stop_flag, control, times, cbs,
                   observed, settings>>

\* *state = PipelineState::Stopped
CtlStopDone(t) ==
    /\ pc[t] = "ctl_join"
    /\ threads = <<>>
    /\ state' = "Stopped"
    /\ ApiEnd("Ok")
    /\ Goto(t, "ctl_idle")
    /\ UNCHANGED <<bufferside, is_acquiring, task_state, todo, starts, cameras,
                   sequence_counter, last_processing, history, sched, times,
                   cbs, observed, settings>>

\* ------------------------------------------ AcquisitionPipeline::reset

\* The state is Running: Err.
CtlResetRejected(t) ==
    /\ state = "Running"
    /\ ApiRejected("reset")
    /\ ReturnOnly(t)

\* The state is not Running; self.buffer.reset() follows.
CtlReset(t) ==
    /\ pc[t] = "ctl_idle"
    /\ resets < MaxResets
    /\ state # "Running"
    /\ ApiBegin("reset")
    /\ Goto(t, ResetEntry(t))
    /\ UNCHANGED <<bufferside, lifecycle, cameras, sequence_counter,
                   last_processing, history, sched, times, cbs, observed,
                   settings>>

\* self.metrics.reset(), which leaves the counters as they are;
\* *counter = 0; *last_acq = None
CtlResetCounter(t) ==
    /\ pc[t] = "ctl_counter"
    /\ sequence_counter' = 0
    /\ last_acquisition' = None
    /\ epoch' = Len(heap)
    /\ Goto(t, "ctl_last")
    /\ UNCHANGED <<bufferside, lifecycle, cameras, last_processing, delivered,
                   sched, now, last_processing_at, acquisition_time, cbs,
                   observed, settings, api>>

\* *last_proc = None; *state = PipelineState::Ready
CtlResetDone(t) ==
    /\ pc[t] = "ctl_last"
    /\ last_processing \in {"free", "poisoned"}
    /\ IF last_processing = "free"
       THEN /\ last_processing_at' = None
            /\ state' = "Ready"
            /\ ApiEnd("Ok")
            /\ Goto(t, "ctl_idle")
       ELSE /\ Goto(t, "panicked")
            /\ UNCHANGED <<state, last_processing_at, api>>
    /\ UNCHANGED <<bufferside, is_acquiring, task_state, todo, starts, cameras,
                   sequence_counter, last_processing, history, sched, now,
                   last_acquisition, acquisition_time, cbs, observed,
                   settings>>

\* ------------------------------------------------------ the specifications

\* LockFreeRingBuffer::new
InitBuffer ==
    /\ capacity \in 1..MaxCapacity
    /\ overflow_strategy \in Strategies
    /\ slots = [i \in 0..(capacity - 1) |-> i + 1]
    /\ heap = [i \in 1..capacity |-> NewSlot]
    /\ head = 0
    /\ tail = 0
    /\ size = 0
    /\ produced = 0
    /\ consumed = 0
    /\ dropped = 0

\* The locals and the ghosts of the threads before any call.
InitLocals ==
    /\ slot_index = [t \in Threads |-> 0]
    /\ slot_ref = [t \in Threads |-> 0]
    /\ sequence = [t \in Threads |-> 0]
    /\ image = [t \in Threads |-> NoImage]
    /\ frames = 0
    /\ resets = 0
    /\ snap = Buffer
    /\ wsnap = Buffer
    /\ last = NoCall
    /\ write_log = <<>>
    /\ read_log = <<>>
    /\ discarded = {}
    /\ granted = [t \in Threads |-> 0]

\* The threads that run, each where it starts.
Spawned(a) ==
    /\ active = a
    /\ pc = [t \in Threads |-> IF t \in a \cap Tasks THEN "loop"
                                ELSE IF t \in a \cap {Controller} THEN "ctl_idle"
                                ELSE IF t \in a THEN "idle" ELSE "off"]
    /\ InitLocals

\* TaskContext::new for every job, with RtContext::new: the job has not
\* run, and its body's counter is 0.
NewJobs(period) ==
    /\ period_ms = period
    /\ last_execution = [k \in Jobs |-> None]
    /\ next_scheduled = [k \in Jobs |-> None]
    /\ wake_at = [k \in Jobs |-> None]
    /\ counter = [k \in Jobs |-> 0]
    /\ sent = 0
    /\ executions = [k \in Jobs |-> 0]
    /\ deadline_misses = [k \in Jobs |-> 0]

\* spawn_rt_task is not called with a configuration of the run's choice.
NoSpawn ==
    /\ rt_config = DefaultRtConfig
    /\ os = AnyOs
    /\ spawned = NotSpawned

\* SyncManager::new
NewSyncManager ==
    /\ sync_manager = [config |-> DefaultSyncConfig, mode |-> "Software",
                       is_active |-> FALSE, trigger_count |-> 0,
                       last_trigger_time |-> None, trigger_intervals |-> <<>>]
    /\ sync_call = NoSyncCall
    /\ triggered = 0
    /\ trigger_times = <<>>

\* Nothing has been recorded through the record_* methods.
NoRecorder == recorded = NoRecords

\* No Timestamp has been created: GLOBAL_COUNTER is 0.
NoStamps ==
    /\ system_time = 0
    /\ corrected = FALSE
    /\ GLOBAL_COUNTER = 0
    /\ duration = [s \in Stampers |-> 0]
    /\ began = [s \in Stampers |-> 0]
    /\ issued = <<>>

\* PipelineMetrics::new, for the histories of the rates: last_update is the
\* instant of the creation.
NoRates ==
    /\ acquisition_history = <<>>
    /\ processing_history = <<>>
    /\ last_update = 0
    /\ held = {}
    /\ events = [acquisition |-> <<>>, processing |-> <<>>]
    /\ rates = [at |-> None, acquisition |-> 0, processing |-> 0]

\* The components that neither the pipeline nor its scheduler uses, as they
\* are created.
Aside ==
    /\ NoStamps
    /\ NoRates

\* TaskScheduler::new, and the components that the pipeline's tasks do not
\* use as they are created.
Apart ==
    /\ ready = FALSE
    /\ NewJobs(0)
    /\ NoSpawn
    /\ NewSyncManager
    /\ NoRecorder
    /\ Aside

InitThreads(a) ==
    /\ Spawned(a)
    /\ Apart

\* AcquisitionPipeline::new's validation of its configuration: only a
\* buffer_capacity or a max_image_size of 0 is refused; overflow_strategy is
\* handed to LockFreeRingBuffer::new as it is.
pipeline_new(buffer_capacity, max_image_size, strategy) ==
    IF buffer_capacity = 0 THEN "ConfigError"
    ELSE IF max_image_size = 0 THEN "ConfigError"
    ELSE "Ok"

\* AcquisitionPipeline::new: nothing has run yet.
NewPipeline ==
    /\ is_acquiring = FALSE
    /\ cameras = "none"
    /\ sequence_counter = 0
    /\ last_processing = "free"
    /\ task_state = [t \in Tasks |-> "NotStarted"]
    /\ todo = <<>>
    /\ starts = 0
    /\ delivered = <<>>
    /\ epoch = 0
    /\ stop_flag = FALSE
    /\ control = [t \in Tasks |-> <<>>]
    /\ metrics = NoMetrics
    /\ stats = NoStats
    /\ now = 0
    /\ last_acquisition = None
    /\ last_processing_at = None
    /\ acquisition_time = [t \in Acquirers |-> 0]
    /\ callbacks_lock = "none"
    /\ invoked = <<>>
    /\ api = NoApiCall

\* A pipeline whose cameras deliver frames and that has no callback.
Plain ==
    /\ processor_callbacks = 0
    /\ camera_fault = [t \in Acquirers |-> "none"]

\* AcquisitionPipeline::new and initialize: the tasks exist and wait to be
\* started, the cameras are not acquiring.
Initialized ==
    /\ NewPipeline
    /\ state = "Ready"
    /\ threads = TaskList

InitPipeline ==
    /\ Initialized
    /\ Plain

\* The populations of concurrent threads, up to renaming.
Populations ==
    {a \in SUBSET (Producers \cup Consumers) :
        /\ a \cap Producers # {}
        /\ a \cap Consumers # {}
        /\ Cardinality(a) <= MaxThreads
        /\ "p2" \in a => "p1" \in a
        /\ "c2" \in a => "c1" \in a}

Init ==
    /\ InitBuffer
    /\ \E a \in Populations : InitThreads(a)
    /\ InitPipeline
    /\ enable_auto_recovery = TRUE

force_advance_tail(t) ==
    \/ FatTail(t)
    \/ FatLoad(t)
    \/ FatInvalidate(t)
    \/ FatAdvance(t)
    \/ FatSize(t)

reserve_write_slot(t) ==
    \/ ReserveCheck(t)
    \/ force_advance_tail(t)
    \/ ReserveHead(t)
    \/ ReserveSwap(t)
    \/ ReserveAdvance(t)
    \/ ReserveSize(t)
    \/ ReserveRef(t)

commit_write(t) ==
    \/ CommitWriteLoad(t)
    \/ CommitWriteSequence(t)
    \/ CommitWriteValid(t)

read_slot(t) ==
    \/ ReadCheck(t)
    \/ ReadTail(t)
    \/ ReadLoad(t)
    \/ ReadValid(t)

commit_read(t) ==
    \/ CommitReadLoad(t)
    \/ CommitReadInvalidate(t)
    \/ CommitReadAdvance(t)
    \/ CommitReadSize(t)

\* A thread that writes frames: reserve, fill, commit.
Produce(t) ==
    \/ reserve_write_slot(t)
    \/ Fill(t)
    \/ commit_write(t)

\* A thread that reads frames: read, look at the slot, commit.
Consume(t) ==
    \/ read_slot(t)
    \/ ReadObserve(t)
    \/ commit_read(t)

reset(t) ==
    \/ ResetHead(t)
    \/ ResetTail(t)
    \/ ResetSize(t)
    \/ ResetLoad(t)
    \/ ResetInvalidate(t)

\* Concurrent producers and consumers on one buffer.
Next ==
    \/ \E t \in Producers : Produce(t)
    \/ \E t \in Consumers : Consume(t)

Spec == Init /\ [][Next]_vars

\* One client calling the buffer's methods one after the other.
InitSeq ==
    /\ InitBuffer
    /\ InitThreads({Client})
    /\ InitPipeline
    /\ enable_auto_recovery = TRUE

NextSeq ==
    \/ Produce(Client)
    \/ Consume(Client)
    \/ reset(Client)

SpecSeq == InitSeq /\ [][NextSeq]_vars

\* The pipeline's tasks, up to renaming: at least one camera and one
\* processing task.
TaskPopulations ==
    {a \in SUBSET Workers :
        /\ a \cap Acquirers # {}
        /\ a \cap Processors # {}
        /\ Cardinality(a) <= MaxThreads
        /\ "a2" \in a => "a1" \in a
        /\ "w2" \in a => "w1" \in a}

InitPipe ==
    /\ InitBuffer
    /\ \E a \in TaskPopulations : InitThreads(a \cup {Controller})
    /\ InitPipeline
    /\ enable_auto_recovery \in BOOLEAN

\* The worker's loop around a task's body.
spawn_rt_task(t) ==
    \/ WorkerLoop(t)
    \/ WorkerControl(t)

Acquire(t) ==
    \/ spawn_rt_task(t)
    \/ AcqLock(t)
    \/ reserve_write_slot(t)
    \/ AcqFill(t)
    \/ commit_write(t)
    \/ AcqEnd(t)
    \/ AcqDrop(t)

Process(t) ==
    \/ spawn_rt_task(t)
    \/ read_slot(t)
    \/ ProcImage(t)
    \/ ProcStamp(t)
    \/ ProcDeliver(t)
    \/ commit_read(t)
    \/ ProcEnd(t)
    \/ ProcErr(t)

start(t) ==
    \/ CtlStart(t)
    \/ CtlStartCameras(t)
    \/ CtlStartTask(t)
    \/ CtlStartDone(t)

pause(t) ==
    \/ CtlPause(t)
    \/ CtlPauseCameras(t)
    \/ CtlPauseDone(t)

pipeline_reset(t) ==
    \/ CtlReset(t)
    \/ reset(t)
    \/ CtlResetCounter(t)
    \/ CtlResetDone(t)

\* A pipeline that is started and left to run.
NextPipe ==
    \/ \E t \in Acquirers : Acquire(t)
    \/ \E t \in Processors : Process(t)
    \/ start(Controller)

SpecPipe == InitPipe /\ [][NextPipe]_vars

\* A pipeline that is started, paused, reset and started again while its
\* tasks run: one or two cameras and no processing task
\* (processing_threads = 0), or one camera and one processing task.
LifePopulations ==
    {a \in SUBSET Workers :
        /\ "a1" \in a
        /\ "w2" \notin a
        /\ Cardinality(a) <= MaxLifeTasks}

InitLife ==
    /\ InitBuffer
    /\ \E a \in LifePopulations : InitThreads(a \cup {Controller})
    /\ InitPipeline
    /\ enable_auto_recovery \in BOOLEAN

NextLife ==
    \/ \E t \in Acquirers : Acquire(t)
    \/ \E t \in Processors : Process(t)
    \/ start(Controller)
    \/ pause(Controller)
    \/ pipeline_reset(Controller)

SpecLife == InitLife /\ [][NextLife]_vars

Monitor(t) ==
    \/ spawn_rt_task(t)
    \/ MonBody(t)

initialize(t) == CtlInitialize(t)

stop(t) ==
    \/ CtlStop(t)
    \/ CtlStopCameras(t)
    \/ CtlStopTask(t)
    \/ CtlStopFlag(t)
    \/ CtlJoin(t)
    \/ CtlStopDone(t)

\* The calls that the pipeline's state does not allow.
refused(t) ==
    \/ CtlInitializeRejected(t)
    \/ CtlStartRejected(t)
    \/ CtlPauseRejected(t)
    \/ CtlStopRejected(t)
    \/ CtlResetRejected(t)

\* PipelineConfig::default().overflow_strategy
DefaultStrategy == overflow_strategy = "DropOldest"

\* The smallest buffer, for the specifications of the pipeline's calls.
OneSlot == capacity = 1

\* A new pipeline with one camera and one processing task, whose
\* initialize(), start(), pause(), stop() and reset() are called in any
\* order, one call after the other.
InitCtl ==
    /\ InitBuffer
    /\ OneSlot
    /\ active = {"a1", "w1", Controller}
    /\ pc = [t \in Threads |-> IF t = Controller THEN "ctl_idle" ELSE "off"]
    /\ InitLocals
    /\ Apart
    /\ NewPipeline
    /\ Plain
    /\ state = "Uninitialized"
    /\ threads = <<>>
    /\ enable_auto_recovery \in BOOLEAN

NextCtl ==
    \/ \E t \in Acquirers : Acquire(t)
    \/ \E t \in Processors : Process(t)
    \/ initialize(Controller)
    \/ start(Controller)
    \/ pause(Controller)
    \/ stop(Controller)
    \/ pipeline_reset(Controller)
    \/ refused(Controller)

SpecCtl == InitCtl /\ [][NextCtl]_vars

\* An initialized pipeline with one camera, one processing task and the
\* monitoring task, that is started and stopped.
InitStop ==
    /\ InitBuffer
    /\ OneSlot
    /\ InitThreads({"a1", "w1", "m1", Controller})
    /\ InitPipeline
    /\ enable_auto_recovery \in BOOLEAN

NextStop ==
    \/ \E t \in Acquirers : Acquire(t)
    \/ \E t \in Processors : Process(t)
    \/ \E t \in Monitors : Monitor(t)
    \/ start(Controller)
    \/ stop(Controller)

\* Every task's thread that can take a step eventually takes one, and the
\* thread that calls start() and stop() eventually gets a mutex that is
\* free again and again.
FairStop ==
    /\ \A t \in Tasks : WF_vars(Acquire(t) \/ Process(t) \/ Monitor(t))
    /\ SF_vars(start(Controller) \/ stop(Controller))

SpecStop == InitStop /\ [][NextStop]_vars /\ FairStop

\* A started pipeline with automatic recovery, one camera and one processing
\* task, while time passes.
InitRecover ==
    /\ InitBuffer
    /\ InitThreads({"a1", "w1", Controller})
    /\ InitPipeline
    /\ enable_auto_recovery = TRUE

NextRecover ==
    \/ \E t \in Acquirers : Acquire(t)
    \/ \E t \in Processors : Process(t)
    \/ start(Controller)
    \/ Tick

SpecRecover == InitRecover /\ [][NextRecover]_vars

\* A started pipeline with two cameras, of which the first one fails, one
\* processing task and the monitoring task.
InitFault ==
    /\ InitBuffer
    /\ InitThreads({"a1", "a2", "w1", "m1", Controller})
    /\ Initialized
    /\ processor_callbacks = 0
    /\ camera_fault = [t \in Acquirers |-> IF t = "a1" THEN "error" ELSE "none"]
    /\ enable_auto_recovery \in BOOLEAN

NextFault ==
    \/ \E t \in Acquirers : Acquire(t)
    \/ \E t \in Processors : Process(t)
    \/ \E t \in Monitors : Monitor(t)
    \/ start(Controller)

SpecFault == InitFault /\ [][NextFault]_vars

\* A started pipeline with one camera, which may deliver nothing, and one
\* processing task, while time passes.
InitStall ==
    /\ InitBuffer
    /\ InitThreads({"a1", "w1", Controller})
    /\ Initialized
    /\ processor_callbacks = 0
    /\ \E f \in {"none", "stall"} : camera_fault = [t \in Acquirers |-> f]
    /\ enable_auto_recovery \in BOOLEAN

NextStall ==
    \/ \E t \in Acquirers : Acquire(t) \/ AcqArrive(t)
    \/ \E t \in Processors : Process(t)
    \/ start(Controller)
    \/ Tick

SpecStall == InitStall /\ [][NextStall]_vars

\* A started pipeline with one camera, one processing task and registered
\* callbacks, each of which may return Ok or Err for a frame.
InitCallbacks ==
    /\ InitBuffer
    /\ InitThreads({"a1", "w1", Controller})
    /\ Initialized
    /\ processor_callbacks \in 1..MaxCallbacks
    /\ camera_fault = [t \in Acquirers |-> "none"]
    /\ enable_auto_recovery \in BOOLEAN

NextCallbacks ==
    \/ \E t \in Acquirers : Acquire(t)
    \/ \E t \in Processors : Process(t)
    \/ start(Controller)

SpecCallbacks == InitCallbacks /\ [][NextCallbacks]_vars

\* A scheduler with one aperiodic job, created with spawn_rt_task as
\* test_scheduler_basic does: start_all, stop_all and join_all are called,
\* and control messages are sent to the job at any time.
NoPipeline ==
    /\ InitBuffer
    /\ OneSlot
    /\ DefaultStrategy
    /\ NewPipeline
    /\ Plain
    /\ state = "Uninitialized"
    /\ enable_auto_recovery = FALSE

InitSched ==
    /\ NoPipeline
    /\ Spawned(Jobs \cup {Controller})
    /\ threads = TaskList
    /\ Apart

Job(k) ==
    \/ spawn_rt_task(k)
    \/ WorkerWake(k)
    \/ JobWait(k)
    \/ JobStart(k)
    \/ JobFn(k)
    \/ JobFnErr(k)
    \/ JobEnd(k)
    \/ JobErr(k)

start_all(t) ==
    \/ SchedStartAll(t)
    \/ CtlStartTask(t)
    \/ SchedStartAllDone(t)

stop_all(t) ==
    \/ SchedStopAll(t)
    \/ CtlStopTask(t)
    \/ CtlStopFlag(t)

join_all(t) ==
    \/ CtlJoin(t)
    \/ SchedJoinDone(t)

NextSched ==
    \/ \E k \in Jobs : Job(k)
    \/ \E k \in active \cap Jobs : \E msg \in TaskControls : Send(k, msg)
    \/ start_all(Controller)
    \/ stop_all(Controller)
    \/ join_all(Controller)

\* The worker threads are scheduled fairly; nothing obliges the callers.
FairSched == \A k \in Jobs : WF_vars(Job(k))

SpecSched == InitSched /\ [][NextSched]_vars /\ FairSched

\* A scheduler with one periodic job whose body returns Ok, after
\* start_all(), while time passes.
InitPeriodic ==
    /\ InitBuffer
    /\ OneSlot
    /\ DefaultStrategy
    /\ Spawned(Jobs \cup {Controller})
    /\ NewPipeline
    /\ Plain
    /\ state = "Uninitialized"
    /\ enable_auto_recovery = FALSE
    /\ threads = TaskList
    /\ ready = FALSE
    /\ NewJobs(PeriodMs)
    /\ NoSpawn
    /\ NewSyncManager
    /\ NoRecorder
    /\ Aside

PeriodicJob(k) ==
    \/ spawn_rt_task(k)
    \/ JobWait(k)
    \/ JobWake(k)
    \/ JobStart(k)
    \/ JobFnCount(k)
    \/ JobEnd(k)

NextPeriodic ==
    \/ start_all(Controller)
    \/ \E k \in Jobs : PeriodicJob(k)
    \/ ClockTick

SpecPeriodic == InitPeriodic /\ [][NextPeriodic]_vars

\* The same scheduler and periodic job, with stop_all() called at any time
\* after the job was spawned.
NextWake ==
    \/ NextPeriodic
    \/ stop_all(Controller)

SpecWake == InitPeriodic /\ [][NextWake]_vars

\* A SyncManager created with new(), whose methods are called in any order.
InitSync ==
    /\ NoPipeline
    /\ Spawned({})
    /\ threads = <<>>
    /\ ready = FALSE
    /\ NewJobs(0)
    /\ NoSpawn
    /\ NewSyncManager
    /\ NoRecorder
    /\ Aside

NextSync ==
    \/ \E mode \in SyncModes : SyncSetMode(mode)
    \/ \E c \in SyncConfigs : SyncSetConfig(c)
    \/ SyncStart
    \/ SyncStop
    \/ SyncTrigger

SpecSync == InitSync /\ [][NextSync]_vars

\* A PipelineMetrics created with new(), whose record_* methods and
\* get_stats are called by any number of threads, as test_metrics_concurrent
\* does.
InitMetrics ==
    /\ NoPipeline
    /\ Spawned({})
    /\ threads = <<>>
    /\ Apart

NextMetrics ==
    \/ record_acquisition
    \/ record_processing
    \/ record_dropped_frame
    \/ GetStats

SpecMetrics == InitMetrics /\ [][NextMetrics]_vars

\* The same PipelineMetrics and calls, while time passes.
NextRates ==
    \/ NextMetrics
    \/ MetricsClock

SpecRates == InitMetrics /\ [][NextRates]_vars

\* spawn_rt_task called once, with any RtConfig, on any platform.
InitRt ==
    /\ NoPipeline
    /\ Spawned({})
    /\ threads = <<>>
    /\ ready = FALSE
    /\ NewJobs(0)
    /\ NewSyncManager
    /\ NoRecorder
    /\ Aside
    /\ rt_config \in RtConfigs
    /\ os \in Platforms
    /\ spawned = NotSpawned

NextRt == SpawnRtTask

SpecRt == InitRt /\ [][NextRt]_vars

\* Timestamp::now called by concurrent threads, as test_timestamp_monotonic
\* does, while the system clock advances and is corrected.
InitTime ==
    /\ NoPipeline
    /\ Spawned(Stampers)
    /\ threads = <<>>
    /\ Apart

NextTime ==
    \/ \E s \in Stampers : NowSystemTime(s) \/ NowCounter(s)
    \/ SystemClockAdvance
    \/ SystemClockCorrection

SpecTime == InitTime /\ [][NextTime]_vars

\* ------------------------------------------------------------------ claims

\* No method of the buffer is in progress.
Quiescent == \A t \in Threads : pc[t] \in {"idle", "off"}

\* C1: in every quiescent state produced_count() equals
\* consumed_count() + dropped_count() + len(), under every overflow policy
\* and every interleaving of producers and consumers.
C1_CountersBalanceAtQuiescence ==
    Quiescent => (len >= 0 /\ produced = consumed + dropped + len)

\* A reader holds slot i from the Ok of read_slot to the store that releases
\* it in commit_read(i).
ReaderHolds(t, i) ==
    /\ pc[t] \in {"rd_obs", "cr_load", "cr_inval"}
    /\ slot_index[t] = i

\* A producer holds slot i from the Ok of reserve_write_slot to the store
\* that publishes it in commit_write(i).
ProducerHolds(t, i) ==
    /\ pc[t] \in {"fill", "cw_load", "cw_seq", "cw_valid"}
    /\ slot_index[t] = i

\* C2: the slot a read_slot returns with Ok is valid at the moment of the
\* read, its size is at most max_image_size, and its index is not one that a
\* producer has reserved and not yet committed.
C2_ReadReturnsPublishedSlot ==
    [][\A t \in Consumers :
         (pc[t] = "rd_valid" /\ pc'[t] = "rd_obs")
            => /\ heap[slot_ref[t]].valid
               /\ heap[slot_ref[t]].size <= MaxImageSize
               /\ \A w \in Producers : ~ProducerHolds(w, slot_index[t])]_vars

\* One producer and one consumer use the buffer.
OneWriterOneReader ==
    /\ Cardinality(active \cap Producers) = 1
    /\ Cardinality(active \cap Consumers) = 1

\* C3: with one writer and one reader, while the reader is between read_slot
\* (returning i) and commit_read(i), no step of the producer changes slot i:
\* neither the object the slot points to, nor its contents, sequence or
\* valid flag.
C3_PublishedSlotImmutable ==
    [][OneWriterOneReader =>
         \A r \in Consumers : \A w \in Producers : \A i \in 0..(capacity - 1) :
            (ReaderHolds(r, i) /\ pc'[w] # pc[w])
               => (slots'[i] = slots[i] /\ heap'[slots[i]] = heap[slots[i]])]_vars

\* C4: no two producers hold the same index between reserve_write_slot and
\* commit_write, and no two consumers hold the same index between read_slot
\* and commit_read.
C4_SlotsHeldExclusively ==
    \A i \in 0..(capacity - 1) :
       /\ \A t, u \in Producers :
            (ProducerHolds(t, i) /\ ProducerHolds(u, i)) => t = u
       /\ \A t, u \in Consumers :
            (ReaderHolds(t, i) /\ ReaderHolds(u, i)) => t = u

\* ---- the client's calls, one after the other (SpecSeq)

Returned(op, res) == last.op = op /\ last.res = res

\* The ImageSlot objects the slots point to.
SlotAt(i) == heap[slots[i]]

AllInvalid == \A i \in 0..(capacity - 1) : ~SlotAt(i).valid

\* The sequences of the frames that can still be read.
Unread == {SlotAt(i).sequence : i \in {j \in 0..(capacity - 1) : SlotAt(j).valid}}

StrictlyIncreasing(log) ==
    \A j, k \in 1..Len(log) : j < k => log[j].sequence < log[k].sequence

\* The object that was at the tail when the client's call began.
OldestAtCall == snap.slots[snap.tail % snap.capacity]

\* C5: under DropOldest a reservation on a full buffer succeeds; it
\* invalidates the slot at tail and no other, advances tail by one, adds one
\* to dropped_count and leaves len() equal to capacity; reads return the
\* surviving frames in the order they were written.
C5_DropOldestEvictsOldest ==
    /\ (overflow_strategy = "DropOldest" /\ last.op = "reserve")
          => last.res # "Err"
    /\ (overflow_strategy = "DropOldest" /\ Returned("reserve", "Ok")
          /\ snap.size >= snap.capacity)
          => /\ snap.heap[OldestAtCall].valid
             /\ ~heap[OldestAtCall].valid
             /\ \A o \in 1..Len(snap.heap) :
                   o # OldestAtCall => heap[o] = snap.heap[o]
             /\ tail = snap.tail + 1
             /\ dropped = snap.dropped + 1
             /\ len = capacity
    /\ (overflow_strategy = "DropOldest" /\ pc[Client] = "rd_obs")
          => \A s \in Unread : heap[slot_ref[Client]].sequence <= s
    /\ overflow_strategy = "DropOldest" => StrictlyIncreasing(read_log)

\* After writing 1, 2, 3 into a buffer of capacity 2, the reads gave 2 then 3.
C5_Witness ==
    /\ overflow_strategy = "DropOldest"
    /\ capacity = 2
    /\ resets = 0
    /\ dropped = 1
    /\ Len(write_log) = 3
    /\ Len(read_log) = 2
    /\ read_log[1].sequence = 2
    /\ read_log[2].sequence = 3

C9_WriteReadRoundTrip ==
    /\ (pc[Client] = "cr_load" /\ wsnap.size = 0)
          => image[Client] = write_log[Len(write_log)]
    /\ (Returned("commit_read", "Ok") /\ wsnap.size = 0)
          => /\ len = 0
             /\ is_empty
             /\ ~is_full
             /\ AllInvalid
             /\ \A i \in 0..(capacity - 1) : ~wsnap.heap[wsnap.slots[i]].valid
             /\ head = wsnap.head + 1
             /\ tail = wsnap.tail + 1
             /\ produced = wsnap.produced + 1
             /\ consumed = wsnap.consumed + 1
             /\ dropped = wsnap.dropped

C9_Witness ==
    /\ Returned("commit_read", "Ok")
    /\ wsnap.size = 0
    /\ read_log = write_log
    /\ Len(read_log) = 1
    /\ read_log[1].size = MaxImageSize
    /\ read_log[1].sequence = 1

\* C10: reset() leaves head, tail and len() at 0 and every slot invalid,
\* the read_slot that follows it returns an error, and the produced, consumed
\* and dropped counts are what they were before the reset.
C10_ResetClearsRing ==
    /\ Returned("reset", "Ok")
          => /\ head = 0
             /\ tail = 0
             /\ len = 0
             /\ AllInvalid
             /\ produced = snap.produced
             /\ consumed = snap.consumed
             /\ dropped = snap.dropped
    /\ (last.op = "read_slot" /\ last.prev = "reset") => last.res = "Err"

C10_Witness ==
    /\ Returned("read_slot", "Err")
    /\ last.prev = "reset"
    /\ capacity = 2
    /\ snap.produced = 2
    /\ snap.consumed = 0
    /\ \E o \in 1..Len(heap) : heap[o].sequence = 2 /\ ~heap[o].valid

\* ---- the pipeline's tasks (SpecPipe, SpecLife)

\* The ImageSlot objects reserved by reserve_write_slot, in the order of
\* their reservation: the swap appends them to the heap.
Reserved == (capacity + 1)..Len(heap)

\* C7: the frames are handed to the callbacks in strictly increasing
\* sequence order, none of them twice, whatever the number of processing
\* tasks.
C7_FramesDeliveredOnceInOrder ==
    \A j, k \in 1..Len(delivered) : j < k => delivered[j] < delivered[k]

Abs(n) == IF n < 0 THEN -n ELSE n

\* Both timestamps are set and they differ by more than one second.
Desync ==
    /\ last_acquisition # None
    /\ last_processing_at # None
    /\ Abs(last_acquisition - last_processing_at) > DesyncLimitMs

\* C11: with enable_auto_recovery, when a processing task has found the
\* buffer empty while the last acquisition and the last processing are more
\* than one second apart, its body resets the buffer (len() is 0), adds one
\* to desync_events and to recovery_events, leaves the buffer's lifetime
\* counters and the pipeline's state as they are, and returns.
C11_DesyncResetsBuffer ==
    [][\A t \in Processors :
         (pc[t] = "proc_err" /\ pc'[t] # pc[t] /\ enable_auto_recovery /\ Desync)
            => /\ len' = 0
               /\ metrics'.desync_events = metrics.desync_events + 1
               /\ metrics'.recovery_events = metrics.recovery_events + 1
               /\ <<produced, consumed, dropped>>' = <<produced, consumed, dropped>>
               /\ state' = state
               /\ pc'[t] = "loop"]_vars

\* ---- the pipeline's lifecycle (SpecCtl)

\* The states from which a call is accepted.
Allowed(op) ==
    CASE op = "initialize" -> {"Uninitialized"}
      [] op = "start" -> {"Ready", "Paused"}
      [] op = "pause" -> {"Running"}
      [] op = "stop" -> {"Running", "Paused"}
      [] OTHER -> {}

Guarded == {"initialize", "start", "pause", "stop"}

\* C12: initialize() goes ahead only from Uninitialized, start() only from
\* Ready or Paused, pause() only from Running, stop() only from Running or
\* Paused; called in any other state each of them returns an error and the
\* state is the one it was called in.
C12_LifecycleCallsGuarded ==
    api.op \in Guarded =>
        /\ api.res \in {"Ok", "pending"} => api.from \in Allowed(api.op)
        /\ api.from \notin Allowed(api.op) =>
               (api.res = "Err" /\ state = api.from)

\* stop() was called on a pipeline that had been stopped, and was refused.
C12_Witness ==
    /\ api = [op |-> "stop", res |-> "Err", from |-> "Stopped"]
    /\ state = "Stopped"

\* ---- pause and resume (SpecLife)

\* C13: when start() has returned Ok on a paused pipeline, the pipeline is
\* Running and every acquisition task still has its thread, so that it goes
\* on executing its body and committing frames.
C13_AcquisitionResumesAfterPause ==
    api = [op |-> "start", res |-> "Ok", from |-> "Paused"] =>
        /\ state = "Running"
        /\ \A t \in active \cap Acquirers : pc[t] # "done"

\* ---- stop and restart (SpecCtl)

\* C14: a start() called on a pipeline that has been started and stopped
\* returns Ok and leaves the pipeline Running.
C14_RestartAfterStop ==
    (api.op = "start" /\ api.from = "Stopped" /\ api.res # "pending") =>
        (api.res = "Ok" /\ state = "Running")

\* ------------------------------------------------ stop() ends (SpecStop)

\* Every task's thread of this run has left its loop.
AllTasksEnded == \A t \in active \cap Tasks : pc[t] = "done"

\* C15: with the default overflow strategy and enable_auto_recovery, a call
\* of stop() on a running pipeline eventually returns Ok, and then the state
\* is Stopped and every task's thread has ended.
C15_StopReturns ==
    (/\ api = [op |-> "stop", res |-> "pending", from |-> "Running"]
     /\ DefaultStrategy
     /\ enable_auto_recovery)
        ~> (/\ api.op = "stop"
            /\ api.res = "Ok"
            /\ state = "Stopped"
            /\ AllTasksEnded)

\* C16: stop() is never left waiting in its join for a thread whose body
\* never returns: it can give up (and then set the state to Error).
C16_JoinGivesUp ==
    (/\ pc[Controller] = "ctl_join"
     /\ threads # <<>>
     /\ pc[threads[Len(threads)]] = "hung")
        => ENABLED stop(Controller)

\* --------------------------------------- a failed initialize() (SpecCtl)

\* C17: when initialize() fails (a camera cannot be initialized, or a task
\* cannot be spawned), the pipeline's state is Error.
C17_FailedInitializeIsError ==
    api = [op |-> "initialize", res |-> "Err", from |-> "Uninitialized"]
        => state = "Error"

\* ------------------------------------------- a camera fails (SpecFault)

\* The task's thread cannot run its body any more.
Halted(t) == pc[t] \in {"done", "hung", "panicked"}

\* C18: while the pipeline is Running, after a camera's error has put its
\* acquisition task in Error, that task's thread has ended without holding
\* the cameras, and every other task is Running and its thread still runs.
C18_CameraErrorIsolated ==
    \A t \in active \cap Acquirers :
        (task_state[t] = "Error" /\ state = "Running")
            => /\ pc[t] = "done"
               /\ cameras # t
               /\ \A u \in (active \cap Tasks) \ {t} :
                     /\ task_state[u] = "Running"
                     /\ ~Halted(u)

\* ------------------------------------- a camera does not deliver (SpecStall)

\* C19: an acquisition task that has waited for its camera's frame for more
\* than max_wait_time_ms leaves the wait by recording one dropped frame and
\* no acquired frame, and stays Running in its loop.
C19_WaitTimesOut ==
    [][\A t \in active \cap Acquirers :
          (/\ pc[t] = "acq_wait"
           /\ now - acquisition_time[t] > max_wait_time_ms
           /\ pc'[t] # "acq_wait")
              => /\ metrics'.frames_dropped = metrics.frames_dropped + 1
                 /\ metrics'.frames_acquired = metrics.frames_acquired
                 /\ task_state'[t] = "Running"
                 /\ pc'[t] = "loop"]_vars

\* -------------------------------------- a callback fails (SpecCallbacks)

\* A callback returned Err for the frame that was delivered last.
CallbackFailed == \E i \in DOMAIN invoked : invoked[i] = "Err"

NextControl(k) == IF control[k] = <<>> THEN "none" ELSE Head(control[k])

\* The worker's thread runs its loop: it has not ended, it is not held on
\* the condition by a Pause, and the scheduler has not been stopped.
Working(k) == pc[k] \notin {"done", "wk_cond"} /\ ~stop_flag

\* The most that a job's body can have counted.
MaxCount == JobTarget + MaxMessages + MaxStarts

C22_ResumeWakesPausedTask ==
    \A k \in active \cap Jobs :
        (task_state[k] = "Paused" /\ pc[k] = "wk_cond"
            /\ NextControl(k) = "Resume")
        => ENABLED Job(k)

\* C23: when join_all() has returned after stop_all(), every task whose body
\* has not failed is in state Finished.
C23_StoppedTasksFinished ==
    pc[Controller] = "ctl_joined"
    => \A k \in active \cap Jobs :
           task_state[k] # "Error" => task_state[k] = "Finished"

\* The control messages that do not apply to a task in the given state.
Inapplicable(st) ==
    IF st = "NotStarted" THEN {"Pause", "Resume"}
    ELSE IF st = "Paused" THEN {"Start"}
    ELSE IF st \in {"Finished", "Error"} THEN {"Start", "Resume"}
    ELSE {}

\* C24: a control message that does not apply to the task's state is a
\* no-op: when the worker reads it, and when start_all delivers its Start,
\* the task's state stays as it is and the worker does not go on to the body.
C24_InapplicableControlIsNoOp ==
    [][\A k \in active \cap Jobs :
          /\ (pc[k] = "wk_task" /\ pc'[k] # "wk_task"
                /\ NextControl(k) \in Inapplicable(task_state[k]))
             => (task_state'[k] = task_state[k] /\ pc'[k] # Body(k))
          /\ (pc[Controller] = "ctl_tasks" /\ todo # <<>> /\ Head(todo) = k
                /\ todo' # todo /\ "Start" \in Inapplicable(task_state[k]))
             => task_state'[k] = task_state[k]]_vars

\* -------------------------------------------- claims on the real-time setup

\* The system refuses something that the configuration asks for.
Refused(c, o) ==
    \/ c.lock_memory /\ o.mlockall = "Err"
    \/ c.cpu_affinity # {} /\ set_affinity(c.cpu_affinity, o) = "Err"
    \/ c.use_rt_scheduler /\ o.sched_setscheduler = "Err"

\* C25: when the operating system refuses memory locking, CPU pinning (also
\* for an affinity whose CPUs are all invalid) or real-time priority,
\* spawn_rt_task still returns Ok and the task's thread runs, unpinned and at
\* normal priority as far as the refusal goes.
C25_RtRefusalIsWarning ==
    (spawned.res # "none" /\ Refused(rt_config, os))
    => (spawned.res = "Ok" /\ spawned.thread)

\* ---------------------------------------------- claims on periodic tasks

\* An execution of the job has taken, or is taking, more than its deadline.
DeadlineMissed(k) ==
    \/ deadline_misses[k] > 0
    \/ pc[k] \in {"job_fn", "job_end"} /\ now - last_execution[k] > deadline_ms

\* C26: a periodic task's releases are P apart whatever the lateness of its
\* wake-ups, so that as long as no deadline is missed the number of
\* executions stays within 1 of floor(T / P), T being the time since the
\* task's first release.
C26_NoCumulativeDrift ==
    \A k \in active \cap Jobs :
        (task_state[k] = "Running" /\ ~DeadlineMissed(k))
        => Abs(executions[k] - (now \div period_ms)) <= 1

\* -------------------------------------------- claims on the SyncManager

\* The manager refuses triggers: it is not active, or its mode is Freerun.
Rejecting == ~sync_manager.is_active \/ sync_manager.mode = "Freerun"

\* C27: trigger() on a manager that is not active, or whose mode is Freerun,
\* returns an error and leaves trigger_count, last_trigger_time and the
\* window of intervals as they were; stop() leaves the configuration and the
\* mode as they were.
C27_RejectedTriggerChangesNothing ==
    [][/\ (SyncTrigger /\ Rejecting)
          => /\ sync_call'.res = "Err"
             /\ sync_manager'.trigger_count = sync_manager.trigger_count
             /\ sync_manager'.last_trigger_time = sync_manager.last_trigger_time
             /\ sync_manager'.trigger_intervals = sync_manager.trigger_intervals
       /\ SyncStop
          => /\ sync_manager'.config = sync_manager.config
             /\ sync_manager'.mode = sync_manager.mode]_vars

\* trigger() has been refused in Freerun mode by an active manager that had
\* counted triggers and kept an interval before.
C27_Witness ==
    /\ sync_call = [op |-> "trigger", res |-> "Err"]
    /\ sync_manager.is_active
    /\ sync_manager.mode = "Freerun"
    /\ sync_manager.trigger_count = 2
    /\ Len(sync_manager.trigger_intervals) = 1

\* C28: while the manager is active in Software or Hardware mode,
\* trigger_count equals the number of trigger() calls that returned Ok since
\* the start() that activated it, and no call made while it is active
\* decreases it: start() on an active manager does not reset it.
C28_TriggerCountCountsTriggers ==
    /\ [](sync_manager.is_active /\ sync_manager.mode \in {"Software", "Hardware"}
            => sync_manager.trigger_count = triggered)
    /\ [][(sync_manager.is_active /\ sync_manager'.is_active)
            => sync_manager'.trigger_count >= sync_manager.trigger_count]_vars

\* start() has returned Ok on an active manager that had counted two
\* triggers, and the count is still two.
C28_Witness ==
    /\ sync_call = [op |-> "start", res |-> "Ok"]
    /\ sync_manager.is_active
    /\ sync_manager.mode = "Hardware"
    /\ sync_manager.trigger_count = 2
    /\ triggered = 2

\* ----------------------------------------- claims on the PipelineMetrics

\* C29: get_stats() reports total_frames_acquired, total_frames_processed
\* and total_frames_dropped equal to the numbers of record_acquisition,
\* record_processing and record_dropped_frame calls made so far.
C29_StatsCountRecords ==
    [][recorded'.get_stats # recorded.get_stats
       => /\ stats'.total_frames_acquired = recorded.record_acquisition
          /\ stats'.total_frames_processed = recorded.record_processing
          /\ stats'.total_frames_dropped = recorded.record_dropped_frame]_vars

\* ------------------------------------- claims on the pipeline's accounting

\* No task's body is in progress.
BetweenBodies == \A t \in active \cap Tasks : pc[t] \in {"loop", "wk_task", "done"}

\* C30: in a pipeline that runs with DropOldest, every frame lost to overflow
\* is counted in frames_dropped: whenever no body is in progress,
\* frames_acquired equals frames_processed + frames_dropped + the number of
\* slots still in the buffer.
C30_DroppedFramesAccounted ==
    (overflow_strategy = "DropOldest" /\ BetweenBodies)
    => metrics.frames_acquired
           = metrics.frames_processed + metrics.frames_dropped + len

\* C31: when one Timestamp::now returns before another one begins, in the
\* same thread or in another, the first timestamp is strictly less than the
\* second under the type's ordering, even when the system clock is set
\* backwards between the two calls.
C31_ReturnOrderIsTimestampOrder ==
    \A i, j \in DOMAIN issued :
        i <= issued[j].began => Less(issued[i], issued[j])

\* C32: the timestamps that concurrent threads obtain from Timestamp::now
\* have distinct monotonic counters, and the type's ordering agrees with
\* the order of the counters, whatever the interleaving of the reads of the
\* clock and the increments of the counter; here on a clock that is never
\* set backwards.
C32_OrderAgreesWithCounters ==
    ~corrected =>
        \A i, j \in DOMAIN issued :
            /\ i # j => issued[i].monotonic_counter # issued[j].monotonic_counter
            /\ Less(issued[i], issued[j])
               => issued[i].monotonic_counter < issued[j].monotonic_counter

\* C33: a configuration whose overflow_strategy is Resize is refused by
\* AcquisitionPipeline::new, so that no pipeline runs with the Resize
\* policy.
C33_ResizeNeverRuns ==
    (pipeline_new(capacity, MaxImageSize, overflow_strategy) = "Ok"
     /\ state = "Running")
    => overflow_strategy # "Resize"

\* C34: a task checks for Stop at each wake-up: when stop_all() has been
\* called while a periodic task sleeps until its next release, the task
\* does not execute its body after waking.
C34_StopCheckedAtWakeUp ==
    [][\A k \in active \cap Jobs :
           (stop_flag /\ pc[k] = "job_sleep" /\ pc'[k] # "job_sleep")
           => pc'[k] \notin {"job_start", "job_fn"}]_vars

\* The intervals between the consecutive instants of a sequence.
Intervals(ts) == [i \in 1..(Len(ts) - 1) |-> ts[i + 1] - ts[i]]

\* The last n elements of a sequence.
LastN(s, n) == SubSeq(s, Len(s) - n + 1, Len(s))

\* What the interval window is to hold after n successful triggers.
WindowLength(n) ==
    LET m == IF n > 0 THEN n - 1 ELSE 0
    IN IF m < WindowLimit THEN m ELSE WindowLimit

\* C35: after n successful trigger() calls since the start() that activated
\* it, the SyncManager's interval window holds exactly
\* min(max(n - 1, 0), limit) intervals, the most recent ones in the order
\* of their occurrence, so that its length never exceeds the limit.
C35_WindowHoldsLatestIntervals ==
    LET n == Len(trigger_times)
        window == sync_manager.trigger_intervals
    IN /\ n = triggered
       /\ Len(window) = WindowLength(n)
       /\ Len(window) <= WindowLimit
       /\ window = LastN(Intervals(trigger_times), WindowLength(n))

\* Enough triggers for the oldest interval to have left the window, which
\* holds two different intervals.
C35_Witness ==
    /\ sync_call = [op |-> "trigger", res |-> "Ok"]
    /\ Len(trigger_times) = WindowLimit + 2
    /\ Len(sync_manager.trigger_intervals) = WindowLimit
    /\ sync_manager.trigger_intervals[1] # sync_manager.trigger_intervals[WindowLimit]
    /\ Intervals(trigger_times)[1] # sync_manager.trigger_intervals[1]

\* The events of a kind that occurred within the window before instant t.
InWindow(es, t) ==
    Cardinality({i \in DOMAIN es : es[i] >= t - METRICS_WINDOW /\ es[i] <= t})

\* C36: the acquisition and processing rates that get_stats() reports at
\* time t are computed from exactly the record_acquisition and
\* record_processing events of the window before t: older events are not
\* counted, even when no event has been recorded since they aged out.
C36_RatesCountTheWindow ==
    [][rates' # rates
       => /\ rates'.acquisition = InWindow(events.acquisition, now)
          /\ rates'.processing = InWindow(events.processing, now)]_vars

\* C37: commit_write(i, seq) on an index whose reservation was evicted by
\* force_advance_tail, or invalidated by reset(), after it was reserved is a
\* no-op: no slot becomes valid, and len() and the counters are unchanged.
C37_CommitOfEvictedSlotIsNoOp ==
    [][\A t \in active \cap Writers :
           (/\ pc[t] = "cw_valid"
            /\ pc'[t] # "cw_valid"
            /\ granted[t] \in discarded)
           => /\ \A o \in DOMAIN heap : heap'[o].valid = heap[o].valid
              /\ size' = size
              /\ counters' = counters]_vars

\* C38: in every reachable state 0 <= len() <= capacity: the size counter
\* never underflows (a size below 0 stands for the wrapped value near 2^64)
\* and never exceeds the capacity, under every overflow policy and every
\* interleaving of concurrent producers and consumers.
C38_LenWithinCapacity == 0 <= len /\ len <= capacity

\* C39: every invocation of the processing task's body returns: on an empty
\* buffer, with enable_auto_recovery on or off, the body takes and releases
\* its locks without waiting for one that it holds, so that the worker is
\* back in its loop with the task's mutex released and last_processing free.
C39_ProcessingBodyReturns ==
    [][\A t \in active \cap Processors :
           (pc[t] = "proc_err" /\ pc'[t] # "proc_err")
           => /\ pc'[t] = "loop"
              /\ TaskMutexFree(t)'
              /\ last_processing' = "free"]_vars

\* C40: the pipeline is Ready, Running or Paused only if initialize() has
\* succeeded on it before.  No code writes Uninitialized, so the claim is
\* that every step which takes the state out of Uninitialized is the
\* successful return of initialize().
C40_OnlyInitializeLeavesUninitialized ==
    [][(state = "Uninitialized" /\ state' # "Uninitialized")
         => api' = [op |-> "initialize", res |-> "Ok",
                    from |-> "Uninitialized"]]_vars

====
